---- MODULE Spec2Model ----
(***************************************************************************)
(* Model of azrginventory (src/main.go): FetchResourceGroups with its      *)
(* listing call and its four processing functions, the semaphore-bounded   *)
(* worker pool of processResourceGroupsConcurrently and its CSV variant,   *)
(* fetchResourceGroupCreatedTime, the 429 retry of                         *)
(* makeAzureRequestWithRetry, checkIfDefaultResourceGroup with the         *)
(* rendering of a group, and the oldest-accounts view of                   *)
(* printStorageAccountResults.                                             *)
(***************************************************************************)
EXTENDS Integers, Sequences, FiniteSets, TLC

(***************************************************************************)
(* Bounds of the model                                                     *)
(***************************************************************************)
\* largest number of resource groups returned by the listing call
MaxGroups == 2
\* largest configured --max-concurrency that is tried
MaxConc == 2
\* largest number of resources in a group whose createdTime is drawn
MaxResources == 3
\* latest timestamp that is drawn
MaxTime == 3
\* largest number of storage account results handed to the summary
MaxAccounts == 6
\* concurrent calls of checkIfDefaultResourceGroup
MaxCallers == 2
\* frames the animation of a spinner prints before it only waits
MaxFrames == 5
\* largest number of storage accounts handed to their processing function
MaxStorageAccounts == 3

(***************************************************************************)
(* Program constants                                                       *)
(***************************************************************************)
maxRetries == 5
\* baseDelay, in milliseconds
baseDelay == 1000
\* rand.Intn(1000): jitter is drawn from 0 .. JitterLimit-1 milliseconds
JitterLimit == 1000
StatusOK == 200
StatusTooManyRequests == 429
StatusInternalServerError == 500
StatusUnauthorized == 401

(***************************************************************************)
(* Values                                                                  *)
(***************************************************************************)
\* a nil *time.Time (timestamps are the positive integers)
NoTime == -1
\* a nil error
NoError == "nil"
\* the zero ResourceGroup
ZeroGroup == [Name |-> "", Location |-> "", ProvisioningState |-> ""]
\* a results[] element that no worker has assigned yet: the zero value left
\* by make([]ResourceGroupResult, n), told apart by the filled mark
EmptySlot ==
    [filled |-> FALSE, ResourceGroup |-> ZeroGroup,
     CreatedTime |-> NoTime, Error |-> NoError]

\* Names of the resource groups the listing call can return, in the order
\* the listing returns them.
GroupNames ==
    <<"DefaultResourceGroup-EUS", "my-custom-rg", "MC_myRG_myAKS_eastus",
      "NetworkWatcherRG", "test-rg-1", "test-rg-2">>

\* A ResourceGroup as decoded from the listing.
ResourceGroup(k) ==
    [Name |-> GroupNames[k], Location |-> "eastus", ProvisioningState |-> "Succeeded"]

\* The listing of n groups.
Listing(n) == [k \in 1..n |-> ResourceGroup(k)]

\* What the resources endpoint serves for a group: the createdTime of each
\* resource of the group, in the order of the "value" array.
ServerCreatedTimes(name) ==
    CASE name = "DefaultResourceGroup-EUS" -> <<3, NoTime, 1, 2>>
      [] name = "my-custom-rg"             -> <<>>
      [] name = "MC_myRG_myAKS_eastus"     -> <<NoTime>>
      [] name = "NetworkWatcherRG"         -> <<5>>
      [] OTHER                             -> <<4, 6>>

\* What HTTPClient.Do can answer to one call: an error, or a response with
\* a status and a body that parses as JSON or does not.
TransportAnswers ==
    { [err |-> TRUE,  status |-> 0, body |-> "none"],
      [err |-> FALSE, status |-> StatusOK, body |-> "json"],
      [err |-> FALSE, status |-> StatusOK, body |-> "malformed"],
      [err |-> FALSE, status |-> StatusTooManyRequests, body |-> "rate limited"],
      [err |-> FALSE, status |-> StatusInternalServerError, body |-> "error"],
      [err |-> FALSE, status |-> StatusUnauthorized, body |-> "error"] }

\* Configured values of --max-concurrency (main_test.go tries 5, 0, -5, 1).
ConcurrencyInputs == {-5, 0} \cup (1..MaxConc)

(***************************************************************************)
(* Pure functions                                                          *)
(***************************************************************************)
\* validateConcurrency with the test "concurrency < 0": zero passes
validateConcurrencyNegativeOnly(concurrency) ==
    IF concurrency < 0 THEN 1 ELSE concurrency

\* validateConcurrency left out: the configured value is used as it is
validateConcurrencyMissing(concurrency) == concurrency

\* frames of the spinner, and the sequence that clears the line
frames == <<"|", "/", "-", "\\">>
ClearLine == "\r\\033[K"

\* fmt.Printf("\r%s %s", frames[i], s.message), with i counted from 0
SpinnerFrame(i, message) == "\r" \o frames[i + 1] \o " " \o message

\* the value initConfig gives to an unset (zero) MaxConcurrency
DefaultMaxConcurrency == 10

\* initConfig without the default for a zero value: every value below 1
\* becomes 1
initConfigWithoutDefault(configured) ==
    IF configured < 1 THEN 1 ELSE configured

\* config.MaxConcurrency when initConfig has read the configured value,
\* before validateConcurrency: a zero value is replaced by the default
initConfig(configured) ==
    IF configured = 0 THEN DefaultMaxConcurrency ELSE configured

\* validateConcurrency that returns 1 whatever is configured
validateConcurrencyAlwaysOne(concurrency) == 1

\* validateConcurrency(concurrency)
validateConcurrency(concurrency) ==
    IF concurrency < 1 THEN 1 ELSE concurrency

\* RetryOutcome that also retries a status other than 200 and 429
RetryOutcomeRetriesStatus(answer, attempt) ==
    IF answer.err THEN "transport"
    ELSE IF answer.status = StatusTooManyRequests
         THEN IF attempt >= maxRetries THEN "exhausted" ELSE "retry"
    ELSE IF answer.status # StatusOK
         THEN IF attempt >= maxRetries THEN "status" ELSE "retry"
    ELSE "ok"

\* RetryOutcome that gives up one attempt early: attempt+1 >= maxRetries
RetryOutcomeGivesUpEarly(answer, attempt) ==
    IF answer.err THEN "transport"
    ELSE IF answer.status = StatusTooManyRequests
         THEN IF attempt + 1 >= maxRetries THEN "exhausted" ELSE "retry"
    ELSE IF answer.status # StatusOK THEN "status"
    ELSE "ok"

\* RetryOutcome that gives up one attempt late: attempt > maxRetries
RetryOutcomeGivesUpLate(answer, attempt) ==
    IF answer.err THEN "transport"
    ELSE IF answer.status = StatusTooManyRequests
         THEN IF attempt > maxRetries THEN "exhausted" ELSE "retry"
    ELSE IF answer.status # StatusOK THEN "status"
    ELSE "ok"

\* RetryOutcome that retries a transport error like a 429
RetryOutcomeRetriesTransport(answer, attempt) ==
    IF answer.err \/ answer.status = StatusTooManyRequests
    THEN IF attempt >= maxRetries
         THEN (IF answer.err THEN "transport" ELSE "exhausted")
         ELSE "retry"
    ELSE IF answer.status # StatusOK THEN "status"
    ELSE "ok"

\* What makeAzureRequestWithRetry does with the answer to the call made
\* at the given attempt:
\*   "transport"  Do returned an error: return it, no retry
\*   "exhausted"  429 and attempt >= maxRetries: return an error
\*   "retry"      429 and attempt < maxRetries: close, sleep, call again
\*   "status"     any other status but 200: return an error
\*   "ok"         200: return the response
RetryOutcome(answer, attempt) ==
    IF answer.err THEN "transport"
    ELSE IF answer.status = StatusTooManyRequests
         THEN IF attempt >= maxRetries THEN "exhausted" ELSE "retry"
    ELSE IF answer.status # StatusOK THEN "status"
    ELSE "ok"

\* time.Time.After in the place of Before
BeforeReversed(t, u) == t > u

\* time.Time.Before on the model's timestamps
Before(t, u) == t < u

\* The loop of fetchResourceGroupCreatedTime over resourcesResponse.Value:
\* the earliest non-nil createdTime, nil when there is none.
RECURSIVE EarliestFrom(_, _)
EarliestFrom(times, earliestTime) ==
    IF times = <<>> THEN earliestTime
    ELSE LET t == Head(times)
             e == IF t # NoTime /\ (earliestTime = NoTime \/ Before(t, earliestTime))
                  THEN t ELSE earliestTime
         IN EarliestFrom(Tail(times), e)

Earliest(times) == EarliestFrom(times, NoTime)

\* The error makeAzureRequestWithRetry returns for an outcome other than
\* "retry"; nil for "ok".
RequestError(outcome, answer) ==
    CASE outcome = "ok" -> NoError
      [] outcome = "transport" -> "failed to make request: EOF"
      [] outcome = "exhausted" ->
            "API request failed with status " \o ToString(answer.status)
               \o " after " \o ToString(maxRetries) \o " retries: " \o answer.body
      [] OTHER ->
            "API request failed with status " \o ToString(answer.status)
               \o ": " \o answer.body

\* (createdTime, err) returned by fetchResourceGroupCreatedTime when
\* makeAzureRequest returned reqErr and, on success, a response with the
\* given body, whose "value" array has resources with the given createdTime
\* when it parses.
fetchResourceGroupCreatedTime(times, reqErr, body) ==
    IF reqErr # NoError
    THEN [CreatedTime |-> NoTime, Error |-> "failed to fetch resources: " \o reqErr]
    ELSE IF body # "json"
    THEN [CreatedTime |-> NoTime, Error |-> "failed to parse response: invalid character"]
    ELSE [CreatedTime |-> Earliest(times), Error |-> NoError]

\* (createdTime, err) returned by fetchResourceGroupCreatedTime for a group
\* of the pool, given how makeAzureRequest ended and the answer to its last
\* call.
FetchReturn(name, outcome, answer) ==
    fetchResourceGroupCreatedTime(ServerCreatedTimes(name),
                                  RequestError(outcome, answer), answer.body)

\* 1<<attempt
RECURSIVE ShiftLeftOne(_)
ShiftLeftOne(attempt) == IF attempt = 0 THEN 1 ELSE 2 * ShiftLeftOne(attempt - 1)

\* a delay that grows by baseDelay with every attempt instead of doubling
BackoffDelayLinear(attempt) == baseDelay * (attempt + 1)

\* delay := baseDelay * time.Duration(1<<attempt), in milliseconds
BackoffDelay(attempt) == baseDelay * ShiftLeftOne(attempt)

\* Values of rand.Intn(1000) that are tried: the least and the greatest.
JitterSamples == {0, JitterLimit - 1}

(***************************************************************************)
(* Strings as sequences of runes, and checkIfDefaultResourceGroup          *)
(***************************************************************************)
UpperLetters ==
    <<"A", "B", "C", "D", "E", "F", "G", "H", "I", "J", "K", "L", "M",
      "N", "O", "P", "Q", "R", "S", "T", "U", "V", "W", "X", "Y", "Z">>
LowerLetters ==
    <<"a", "b", "c", "d", "e", "f", "g", "h", "i", "j", "k", "l", "m",
      "n", "o", "p", "q", "r", "s", "t", "u", "v", "w", "x", "y", "z">>
Digits == {"0", "1", "2", "3", "4", "5", "6", "7", "8", "9"}
\* two runes outside ASCII, each written as one element of a sequence:
\* LATIN SMALL LETTER DOTLESS I and KELVIN SIGN
DotlessI == "U+0131"
KelvinSign == "U+212A"
LineFeed == "\n"

\* the string of a sequence of runes
RECURSIVE Text(_)
Text(runes) == IF runes = <<>> THEN "" ELSE Head(runes) \o Text(Tail(runes))

\* unicode.ToLower of one rune: A-Z to a-z, the Kelvin sign to k, every
\* other rune of the model to itself
RuneToLower(c) ==
    IF \E i \in 1..26 : UpperLetters[i] = c
    THEN LowerLetters[CHOOSE i \in 1..26 : UpperLetters[i] = c]
    ELSE IF c = KelvinSign THEN "k" ELSE c

\* unicode.ToUpper of one rune: a-z to A-Z, the dotless i to I, every other
\* rune of the model to itself
RuneToUpper(c) ==
    IF \E i \in 1..26 : LowerLetters[i] = c
    THEN UpperLetters[CHOOSE i \in 1..26 : LowerLetters[i] = c]
    ELSE IF c = DotlessI THEN "I" ELSE c

ToLowerRunes(runes) == [i \in 1..Len(runes) |-> RuneToLower(runes[i])]
ToUpperRunes(runes) == [i \in 1..Len(runes) |-> RuneToUpper(runes[i])]

\* Names given to checkIfDefaultResourceGroup: the names of the tests, names
\* that miss a pattern by little, and two names with a rune outside ASCII.
ClassifierInputs ==
    { <<>>, <<"D", "e", "f", "a", "u", "l", "t", "R", "e", "s", "o", "u",
    "r", "c", "e", "G", "r", "o", "u", "p", "-", "E", "U", "S">>, <<"D",
    "E", "F", "A", "U", "L", "T", "R", "E", "S", "O", "U", "R", "C", "E",
    "G", "R", "O", "U", "P", "-", "W", "U", "S", "2">>, <<"D", "e", "f",
    "a", "u", "l", "t", "R", "e", "s", "o", "u", "r", "c", "e", "G", "r",
    "o", "u", "p">>, <<"D", "y", "n", "a", "m", "i", "c", "s", "D", "e",
    "p", "l", "o", "y", "m", "e", "n", "t", "s">>, <<"M", "C", "_", "m",
    "y", "R", "G", "_", "m", "y", "A", "K", "S", "_", "e", "a", "s", "t",
    "u", "s">>, <<"M", "C", "_", "i", "n", "c", "o", "m", "p", "l", "e",
    "t", "e">>, <<"A", "z", "u", "r", "e", "B", "a", "c", "k", "u", "p",
    "R", "G", "_", "e", "a", "s", "t", "u", "s", "_", "1">>, <<"A", "z",
    "u", "r", "e", "B", "a", "c", "k", "u", "p", "R", "G">>, <<"N", "e",
    "t", "w", "o", "r", "k", "W", "a", "t", "c", "h", "e", "r", "R",
    "G">>, <<"d", "a", "t", "a", "b", "r", "i", "c", "k", "s", "-", "r",
    "g", "-", "m", "y", "w", "o", "r", "k", "s", "p", "a", "c", "e", "-",
    "x", "y", "z", "1", "2", "3">>, <<"d", "a", "t", "a", "b", "r", "i",
    "c", "k", "s", "-", "r", "g">>, <<"m", "i", "c", "r", "o", "s", "o",
    "f", "t", "-", "n", "e", "t", "w", "o", "r", "k">>, <<"L", "o", "g",
    "A", "n", "a", "l", "y", "t", "i", "c", "s", "D", "e", "f", "a", "u",
    "l", "t", "R", "e", "s", "o", "u", "r", "c", "e", "s">>, <<"D", "e",
    "f", "a", "u", "l", "t", "-", "S", "t", "o", "r", "a", "g", "e", "-",
    "E", "a", "s", "t", "U", "S">>, <<"D", "e", "f", "a", "u", "l", "t",
    "-", "A", "c", "t", "i", "v", "i", "t", "y", "L", "o", "g", "A", "l",
    "e", "r", "t", "s">>, <<"D", "e", "f", "a", "u", "l", "t", "-">>,
    <<"d", "e", "f", "a", "u", "l", "t", "-", "-", "x">>, <<"c", "l", "o",
    "u", "d", "-", "s", "h", "e", "l", "l", "-", "s", "t", "o", "r", "a",
    "g", "e", "-", "e", "a", "s", "t", "u", "s">>, <<"c", "l", "o", "u",
    "d", "-", "s", "h", "e", "l", "l", "-", "s", "t", "o", "r", "a", "g",
    "e", "-">>, <<"c", "l", "o", "u", "d", "-", "s", "h", "e", "l", "l",
    "-", "s", "t", "o", "r", "a", "g", "e", "-", "e", "a", "s", "t", "-",
    "u", "s">>, <<"m", "y", "-", "c", "u", "s", "t", "o", "m", "-", "r",
    "g">>, <<"p", "r", "o", "d", "-", "w", "e", "b", "-", "a", "p", "p",
    "-", "r", "g">>, <<"t", "e", "s", "t", "-", "r", "g", "-", "1">>,
    <<"t", "e", "s", "t", "-", "r", "g", "-", "2">>, <<"1", "2", "3">>,
    <<"f", "o", "o">>, <<"m", "U+0131", "c", "r", "o", "s", "o", "f", "t",
    "-", "n", "e", "t", "w", "o", "r", "k">>, <<"n", "e", "t", "w", "o",
    "r", "U+212A", "w", "a", "t", "c", "h", "e", "r", "r", "g">> }

\* Every name of the model with its lower-cased and upper-cased form.
NameRunes ==
    ClassifierInputs \cup {ToLowerRunes(r) : r \in ClassifierInputs}
                     \cup {ToUpperRunes(r) : r \in ClassifierInputs}

\* the runes of a name of the model
RunesOf ==
    [s \in {Text(r) : r \in NameRunes} |-> CHOOSE r \in NameRunes : Text(r) = s]

\* strings.ToLower(name) and strings.ToUpper(name)
ToLower(name) == Text(ToLowerRunes(RunesOf[name]))
ToUpper(name) == Text(ToUpperRunes(RunesOf[name]))

HasPrefix(s, prefix) ==
    Len(s) >= Len(prefix) /\ SubSeq(s, 1, Len(prefix)) = prefix

\* what follows the prefix
TrimPrefix(s, prefix) == SubSeq(s, Len(prefix) + 1, Len(s))

\* the class [a-z0-9]
LowerAlnum == {LowerLetters[i] : i \in 1..26} \cup Digits

\* s matches ^[a-z0-9]+$
IsAlnumRun(s) == s # <<>> /\ \A i \in 1..Len(s) : s[i] \in LowerAlnum

\* s matches ^[a-z0-9]+(-[a-z0-9]+)*$
IsAlnumSegments(s) ==
    /\ s # <<>>
    /\ \A i \in 1..Len(s) : s[i] \in LowerAlnum \cup {"-"}
    /\ s[1] # "-"
    /\ s[Len(s)] # "-"
    /\ \A i \in 1..(Len(s) - 1) : ~(s[i] = "-" /\ s[i + 1] = "-")

\* s matches ^.*_.*_.*$ ("." is any rune but the line feed)
HasTwoUnderscores(s) ==
    /\ \A i \in 1..Len(s) : s[i] # LineFeed
    /\ Cardinality({i \in 1..Len(s) : s[i] = "_"}) >= 2

\* ^defaultresourcegroup-
defaultResourceGroupPattern(s) ==
    HasPrefix(s, <<"d", "e", "f", "a", "u", "l", "t", "r", "e", "s", "o",
    "u", "r", "c", "e", "g", "r", "o", "u", "p", "-">>)

\* ^default, without the hyphen and without what must follow it
defaultServicePatternLoose(s) ==
    HasPrefix(s, <<"d", "e", "f", "a", "u", "l", "t">>)

\* ^default-[a-z0-9]+(-[a-z0-9]+)*$
defaultServicePattern(s) ==
    LET prefix == <<"d", "e", "f", "a", "u", "l", "t", "-">>
    IN HasPrefix(s, prefix) /\ IsAlnumSegments(TrimPrefix(s, prefix))

\* ^cloud-shell-storage-[a-z0-9]+$
cloudShellStoragePattern(s) ==
    LET prefix ==
            <<"c", "l", "o", "u", "d", "-", "s", "h", "e", "l", "l", "-",
            "s", "t", "o", "r", "a", "g", "e", "-">>
    IN HasPrefix(s, prefix) /\ IsAlnumRun(TrimPrefix(s, prefix))

\* ^dynamicsdeployments$
dynamicsPattern(s) ==
    s = <<"d", "y", "n", "a", "m", "i", "c", "s", "d", "e", "p", "l", "o",
    "y", "m", "e", "n", "t", "s">>

\* ^mc_.*_.*_.*$
aksPattern(s) ==
    LET prefix == <<"m", "c", "_">>
    IN HasPrefix(s, prefix) /\ HasTwoUnderscores(TrimPrefix(s, prefix))

\* ^azurebackuprg
azureBackupPattern(s) ==
    HasPrefix(s, <<"a", "z", "u", "r", "e", "b", "a", "c", "k", "u", "p",
    "r", "g">>)

\* ^networkwatcherrg$
networkWatcherPattern(s) ==
    s = <<"n", "e", "t", "w", "o", "r", "k", "w", "a", "t", "c", "h", "e",
    "r", "r", "g">>

\* ^databricks-rg
databricksPattern(s) ==
    HasPrefix(s, <<"d", "a", "t", "a", "b", "r", "i", "c", "k", "s", "-",
    "r", "g">>)

\* ^microsoft-network$
microsoftNetworkPattern(s) ==
    s = <<"m", "i", "c", "r", "o", "s", "o", "f", "t", "-", "n", "e", "t",
    "w", "o", "r", "k">>

\* ^loganalyticsdefaultresources$
logAnalyticsPattern(s) ==
    s = <<"l", "o", "g", "a", "n", "a", "l", "y", "t", "i", "c", "s", "d",
    "e", "f", "a", "u", "l", "t", "r", "e", "s", "o", "u", "r", "c", "e",
    "s">>

\* whether each pattern matches s, in the order in which
\* checkIfDefaultResourceGroup tries the patterns
PatternMatch(s) ==
    << defaultResourceGroupPattern(s), defaultServicePattern(s),
       cloudShellStoragePattern(s), dynamicsPattern(s), aksPattern(s),
       azureBackupPattern(s), networkWatcherPattern(s), databricksPattern(s),
       microsoftNetworkPattern(s), logAnalyticsPattern(s) >>

\* the literal text that follows "^" in each pattern, in the same order
PatternPrefixes ==
    << <<"d", "e", "f", "a", "u", "l", "t", "r", "e", "s", "o", "u", "r", "c", "e",
         "g", "r", "o", "u", "p", "-">>,
       <<"d", "e", "f", "a", "u", "l", "t", "-">>,
       <<"c", "l", "o", "u", "d", "-", "s", "h", "e", "l", "l", "-", "s", "t", "o",
         "r", "a", "g", "e", "-">>,
       <<"d", "y", "n", "a", "m", "i", "c", "s", "d", "e", "p", "l", "o", "y", "m",
         "e", "n", "t", "s">>,
       <<"m", "c", "_">>,
       <<"a", "z", "u", "r", "e", "b", "a", "c", "k", "u", "p", "r", "g">>,
       <<"n", "e", "t", "w", "o", "r", "k", "w", "a", "t", "c", "h", "e", "r", "r",
         "g">>,
       <<"d", "a", "t", "a", "b", "r", "i", "c", "k", "s", "-", "r", "g">>,
       <<"m", "i", "c", "r", "o", "s", "o", "f", "t", "-", "n", "e", "t", "w", "o",
         "r", "k">>,
       <<"l", "o", "g", "a", "n", "a", "l", "y", "t", "i", "c", "s", "d", "e", "f",
         "a", "u", "l", "t", "r", "e", "s", "o", "u", "r", "c", "e", "s">> >>

\* the CreatedBy that checkIfDefaultResourceGroup returns under each pattern
PatternCreatedBy ==
    << "Azure CLI / Cloud Shell / Visual Studio", "Azure Services",
       "Azure Cloud Shell", "Microsoft Dynamics ERP",
       "Azure Kubernetes Service (AKS)", "Azure Backup", "Azure Network Watcher",
       "Azure Databricks", "Microsoft Networking Services", "Azure Log Analytics" >>

\* DefaultResourceGroupInfo{IsDefault: true, CreatedBy, Description}
DefaultInfo(createdBy, description) ==
    [IsDefault |-> TRUE, CreatedBy |-> createdBy, Description |-> description]

\* an unclassified value that names an owner
NotDefaultWithOwner == [IsDefault |-> FALSE, CreatedBy |-> "Unknown", Description |-> ""]

\* DefaultResourceGroupInfo{IsDefault: false}
NotDefault == [IsDefault |-> FALSE, CreatedBy |-> "", Description |-> ""]

\* The patterns are tried on nameLower in this order; the first match
\* decides, and a name that matches none is not a default
FirstMatch(s) ==
    IF defaultResourceGroupPattern(s)
    THEN DefaultInfo("Azure CLI / Cloud Shell / Visual Studio",
            "Common default resource group created for the region, used by Azure CLI, Cloud Shell, and Visual Studio for resource deployment")
    ELSE IF defaultServicePattern(s)
    THEN DefaultInfo("Azure Services",
            "Default resource group created by Azure services for regional deployments")
    ELSE IF cloudShellStoragePattern(s)
    THEN DefaultInfo("Azure Cloud Shell",
            "Default storage resource group created by Azure Cloud Shell for persistent storage")
    ELSE IF dynamicsPattern(s)
    THEN DefaultInfo("Microsoft Dynamics ERP",
            "Automatically created for Microsoft Dynamics ERP non-production instances")
    ELSE IF aksPattern(s)
    THEN DefaultInfo("Azure Kubernetes Service (AKS)",
            "Created when deploying an AKS cluster, contains infrastructure resources for the cluster")
    ELSE IF azureBackupPattern(s)
    THEN DefaultInfo("Azure Backup",
            "Created by Azure Backup service for backup operations")
    ELSE IF networkWatcherPattern(s)
    THEN DefaultInfo("Azure Network Watcher",
            "Created by Azure Network Watcher service for network monitoring")
    ELSE IF databricksPattern(s)
    THEN DefaultInfo("Azure Databricks",
            "Created by Azure Databricks service for managed workspace resources")
    ELSE IF microsoftNetworkPattern(s)
    THEN DefaultInfo("Microsoft Networking Services",
            "Used by Microsoft's networking services")
    ELSE IF logAnalyticsPattern(s)
    THEN DefaultInfo("Azure Log Analytics",
            "Created by Azure Log Analytics service for default workspace resources")
    ELSE NotDefault

\* checkIfDefaultResourceGroup that matches the name as it is written
checkIfDefaultResourceGroupCaseSensitive(name) == FirstMatch(RunesOf[name])

\* checkIfDefaultResourceGroup(name): the name is lower-cased and the
\* patterns are tried on the lower-cased name
checkIfDefaultResourceGroup(name) == FirstMatch(ToLowerRunes(RunesOf[name]))

\* checkIfDefaultResourceGroup of every name of the model, computed once:
\* the functions that render a group read the classification of its name
\* here
DefaultInfoOf ==
    [name \in DOMAIN RunesOf |-> checkIfDefaultResourceGroup(name)]

(***************************************************************************)
(* State                                                                   *)
(***************************************************************************)
VARIABLES
    \* ac.Config.MaxConcurrency, ac.Config.Porcelain, ac.Config.OutputCSV != ""
    cfgMaxConcurrency, porcelain, outputCSV,
    \* viper.GetInt("max-concurrency"): the configured value that initConfig
    \* reads (0 where initConfig is not part of the run)
    viperMaxConcurrency,
    \* the slice handed to the processing function
    resourceGroups,
    \* the index of the group whose request HTTPClient.Do never answers, 0
    \* when every request is answered
    hung,
    \* a transport that gives every request for group i the same answer
    \* scripted[i]; <<>> for a transport that answers each request freely
    scripted,
    \* position of the calling goroutine, and the index of its range loops
    mainPc, loopI,
    \* cap(semaphore) and len(semaphore)
    semCap, semaphore,
    \* the WaitGroup counter
    wg,
    \* results[i]
    results,
    \* per worker goroutine: position, the (i, rg) it was started with, and
    \* the attempt argument of its makeAzureRequestWithRetry frame
    wpc, wi, wrg, attempt,
    \* the Spinner: s.active, the done channel, the animation goroutine
    spinnerActive, spinnerDone, spinnerGo,
    \* s.message, and what the spinner has written to standard output (the
    \* frames are written only where the animation is modelled step by step)
    spinnerMessage, spinnerOut,
    \* standard output (one entry per printed result) and the CSV rows
    printed, csvData,
    \* bookkeeping of a pool run: HTTPClient.Do calls that were answered
    \* with anything but a 429 response, whether any was answered 429, calls
    \* of fetchResourceGroupCreatedTime per group index, the group indexes
    \* whose fetch returned an error, assignments per slot
    otherCalls, saw429, fetchCalls, fetchFailed, writes,
    \* a direct call of makeAzureRequest(url) against a scripted transport:
    \* the transport answers 429 to the first throttleFirst calls and
    \* thenAnswer to every later call
    throttleFirst, thenAnswer,
    \* position of the call, the attempt argument of the current frame, the
    \* (resp, err) returned
    rPc, rAttempt, rReturn,
    \* bookkeeping of the direct call: HTTPClient.Do calls made, the answers
    \* received, the totalDelay of every time.Sleep
    rCalls, rAnswers, rSlept, rClosed,
    \* FetchResourceGroups: the list-resources flag, the position of the
    \* function, the attempt argument of the listing call's frame, the last
    \* answer to the listing call, the error returned
    listResources, fPc, fAttempt, fAnswer, fErr,
    \* the attempt argument of the frame of a request made by the loop of a
    \* WithResources processing function
    sAttempt,
    \* checkIfDefaultResourceGroup and the rendering applied to one name: the
    \* name, the position, the results for the name, its lower-cased and its
    \* upper-cased form, two fetch outcomes of a group of that name and what
    \* is rendered for them
    cName, cPc, cInfo, cOutcomes, cRows,
    \* printStorageAccountResults: the results handed in, the position, and
    \* the oldest-accounts view printed per location
    saResults, saPc, saOldest, saTotals,
    \* fetchResourceGroupCreatedTime on its own: the createdTime of the
    \* group's resources as served, the position, the (createdTime, err)
    \* returned
    ctTimes, ctPc, ctReturn,
    \* concurrent calls of checkIfDefaultResourceGroup: per call its argument,
    \* its position and the value it returned; and the nameLower variables
    calls, nameLower

cfgVars ==
    <<cfgMaxConcurrency, viperMaxConcurrency, porcelain, outputCSV, resourceGroups, hung,
      scripted>>
spinnerVars == <<spinnerActive, spinnerDone, spinnerGo, spinnerMessage, spinnerOut>>
outVars == <<printed, csvData>>
bookVars == <<otherCalls, saw429, fetchCalls, fetchFailed, writes>>
poolVars ==
    <<cfgVars, mainPc, loopI, semCap, semaphore, wg, results, wpc, wi, wrg,
      attempt, spinnerVars, outVars, bookVars>>
reqVars ==
    <<throttleFirst, thenAnswer, rPc, rAttempt, rReturn, rCalls, rAnswers, rSlept,
      rClosed>>

frgVars == <<listResources, fPc, fAttempt, fAnswer, fErr, sAttempt>>
classVars == <<cName, cPc, cInfo, cOutcomes, cRows, calls, nameLower>>
storVars == <<saResults, saPc, saOldest, saTotals>>
ctVars == <<ctTimes, ctPc, ctReturn>>
pureVars == <<classVars, storVars, ctVars>>
sideVars == <<frgVars, pureVars>>

vars == <<poolVars, reqVars, sideVars>>

\* a length that counts one group when there is none
NAtLeastOne == IF Len(resourceGroups) = 0 THEN 1 ELSE Len(resourceGroups)

\* len(resourceGroups)
N == Len(resourceGroups)
Workers == 1..N

(***************************************************************************)
(* Rendering                                                               *)
(***************************************************************************)
\* time.Time.Format(time.RFC3339) of a model timestamp: day t of 2023-01
FormatRFC3339(t) == "2023-01-0" \o ToString(t) \o "T12:00:00Z"

\* fmt.Sprintf("%v", b), and the "true" / "false" of the porcelain line
BoolText(b) == IF b THEN "true" ELSE "false"

\* one resource in the Resources field of a CSV row; the k-th resource of a
\* group is named resource-k
ResourceInfo(k, t) ==
    "resource-" \o ToString(k) \o " (Microsoft.Test/type) - Created: "
        \o (IF t # NoTime THEN FormatRFC3339(t) ELSE "Not available")

\* strings.Join(resourcesList, "; ") over the resources from the k-th on
RECURSIVE JoinResourceInfo(_, _)
JoinResourceInfo(times, k) ==
    IF k > Len(times) THEN ""
    ELSE ResourceInfo(k, times[k])
            \o (IF k < Len(times) THEN "; " ELSE "")
            \o JoinResourceInfo(times, k + 1)

\* the lines printed for the resources of a group, from the k-th on
RECURSIVE PrintedResources(_, _)
PrintedResources(times, k) ==
    IF k > Len(times) THEN ""
    ELSE "- resource-" \o ToString(k) \o " (Microsoft.Test/type) Created: "
            \o (IF times[k] # NoTime THEN FormatRFC3339(times[k]) ELSE "Not available")
            \o " " \o PrintedResources(times, k + 1)

\* What is printed under a group for its resources: by listResourcesInGroup
\* and by printResourceGroupResultWithResources.
ResourcesListing(times) ==
    IF Len(times) = 0 THEN "No resources found in this resource group"
    ELSE "Resources (" \o ToString(Len(times)) \o "): " \o PrintedResources(times, 1)

\* What printResourceGroupResult(result, true) prints in the human-readable
\* format for the (err) of listResourcesInGroup, whose request ended with
\* reqErr and delivered the body.
ListResourcesPrinted(times, reqErr, body) ==
    IF reqErr # NoError
    THEN "Error listing resources: failed to fetch resources: " \o reqErr
    ELSE IF body # "json"
    THEN "Error listing resources: failed to parse response: invalid character"
    ELSE ResourcesListing(times)

\* What printResourceGroupResult(result, listRes) writes for a group: the
\* name, the created-time text, the classification and, in the human-
\* readable format with listRes, the text printed for its resources.
printResourceGroupResult(result, porc, listRes, listing) ==
    LET defaultInfo == DefaultInfoOf[result.ResourceGroup.Name]
    IN [Name |-> result.ResourceGroup.Name,
        CreatedTime |->
           IF porc
           THEN IF result.Error # NoError THEN "ERROR"
                ELSE IF result.CreatedTime # NoTime THEN FormatRFC3339(result.CreatedTime)
                ELSE "N/A"
           ELSE IF listRes THEN ""
                ELSE IF result.Error # NoError THEN "Error fetching (" \o result.Error \o ")"
                ELSE IF result.CreatedTime # NoTime THEN FormatRFC3339(result.CreatedTime)
                ELSE "Not available",
        IsDefault   |-> BoolText(defaultInfo.IsDefault),
        CreatedBy   |-> IF ~porc /\ defaultInfo.IsDefault THEN defaultInfo.CreatedBy ELSE "",
        Description |-> IF ~porc /\ defaultInfo.IsDefault THEN defaultInfo.Description ELSE "",
        Resources   |-> IF ~porc /\ listRes THEN listing ELSE ""]

\* The line printResourceGroupResult(result, false) writes.
PrintedLine(result, porc) == printResourceGroupResult(result, porc, FALSE, "")

\* What printResourceGroupResultWithResources(result, resources) writes.
printResourceGroupResultWithResources(result, porc, times) ==
    LET defaultInfo == DefaultInfoOf[result.ResourceGroup.Name]
    IN [Name |-> result.ResourceGroup.Name,
        CreatedTime |->
           IF porc
           THEN IF Earliest(times) # NoTime THEN FormatRFC3339(Earliest(times))
                ELSE "N/A"
           ELSE "",
        IsDefault   |-> BoolText(defaultInfo.IsDefault),
        CreatedBy   |-> IF ~porc /\ defaultInfo.IsDefault THEN defaultInfo.CreatedBy ELSE "",
        Description |-> IF ~porc /\ defaultInfo.IsDefault THEN defaultInfo.Description ELSE "",
        Resources   |-> IF porc THEN "" ELSE ResourcesListing(times)]

\* convertToCSVRow that takes the row of a failed group for one without a
\* timestamp
convertToCSVRowDropsError(result, listRes, times) ==
    LET defaultInfo == DefaultInfoOf[result.ResourceGroup.Name]
    IN [ResourceGroupName |-> result.ResourceGroup.Name,
        Location          |-> result.ResourceGroup.Location,
        ProvisioningState |-> result.ResourceGroup.ProvisioningState,
        CreatedTime |->
           IF result.CreatedTime # NoTime THEN FormatRFC3339(result.CreatedTime)
           ELSE "Not available",
        IsDefault   |-> BoolText(defaultInfo.IsDefault),
        CreatedBy   |-> defaultInfo.CreatedBy,
        Description |-> defaultInfo.Description,
        Resources   |-> IF listRes THEN JoinResourceInfo(times, 1) ELSE ""]

\* convertToCSVRow that classifies a failed group as not a default
convertToCSVRowErrorUnclassified(result, listRes, times) ==
    LET defaultInfo == IF result.Error # NoError THEN NotDefault
                       ELSE DefaultInfoOf[result.ResourceGroup.Name]
    IN [ResourceGroupName |-> result.ResourceGroup.Name,
        Location          |-> result.ResourceGroup.Location,
        ProvisioningState |-> result.ResourceGroup.ProvisioningState,
        CreatedTime |->
           IF result.Error # NoError THEN "Error: " \o result.Error
           ELSE IF result.CreatedTime # NoTime THEN FormatRFC3339(result.CreatedTime)
           ELSE "Not available",
        IsDefault   |-> BoolText(defaultInfo.IsDefault),
        CreatedBy   |-> defaultInfo.CreatedBy,
        Description |-> defaultInfo.Description,
        Resources   |-> IF listRes THEN JoinResourceInfo(times, 1) ELSE ""]

\* convertToCSVRow(result, listResources, resources); the resources are
\* given by their createdTime, nil resources by the empty sequence
convertToCSVRow(result, listRes, times) ==
    LET defaultInfo == DefaultInfoOf[result.ResourceGroup.Name]
    IN [ResourceGroupName |-> result.ResourceGroup.Name,
        Location          |-> result.ResourceGroup.Location,
        ProvisioningState |-> result.ResourceGroup.ProvisioningState,
        CreatedTime |->
           IF result.Error # NoError THEN "Error: " \o result.Error
           ELSE IF result.CreatedTime # NoTime THEN FormatRFC3339(result.CreatedTime)
           ELSE "Not available",
        IsDefault   |-> BoolText(defaultInfo.IsDefault),
        CreatedBy   |-> defaultInfo.CreatedBy,
        Description |-> defaultInfo.Description,
        Resources   |-> IF listRes THEN JoinResourceInfo(times, 1) ELSE ""]

(***************************************************************************)
(* The worker pool: processResourceGroupsConcurrently and                  *)
(* processResourceGroupsConcurrentlyCSV (the same code up to the loop that *)
(* renders the results)                                                    *)
(***************************************************************************)
\* the zero value of an answer: no call has been answered
NoAnswer == [err |-> FALSE, status |-> 0, body |-> "none"]

\* FetchResourceGroups is not running.
FrgIdle ==
    /\ listResources = FALSE
    /\ fPc = "idle"
    /\ fAttempt = 0
    /\ fAnswer = NoAnswer
    /\ fErr = NoError
    /\ sAttempt = 0

\* No name is being classified.
ClassIdle ==
    /\ cName = ""
    /\ cPc = "idle"
    /\ cInfo = <<>>
    /\ cOutcomes = <<>>
    /\ cRows = <<>>
    /\ calls = <<>>
    /\ nameLower = <<>>

\* printStorageAccountResults is not running.
StorIdle ==
    /\ saResults = <<>>
    /\ saPc = "idle"
    /\ saOldest = <<>>
    /\ saTotals = <<>>

\* No separate call of fetchResourceGroupCreatedTime is under way.
CtIdle ==
    /\ ctTimes = <<>>
    /\ ctPc = "idle"
    /\ ctReturn = [CreatedTime |-> NoTime, Error |-> NoError]

\* Only the worker pool or the direct request is running.
SideIdle == FrgIdle /\ ClassIdle /\ StorIdle /\ CtIdle

\* No direct call of makeAzureRequest is under way.
RequestIdle ==
    /\ throttleFirst = 0
    /\ thenAnswer = [err |-> FALSE, status |-> StatusOK, body |-> "json"]
    /\ rPc = "idle"
    /\ rAttempt = 0
    /\ rReturn = [resp |-> 0, err |-> NoError]
    /\ rCalls = 0
    /\ rAnswers = <<>>
    /\ rSlept = <<>>
    /\ rClosed = <<>>

\* The state in which a processing function is entered with a list.
PoolEntry(list) ==
    /\ resourceGroups = list
    /\ loopI = 1
    /\ semCap = 0
    /\ semaphore = 0
    /\ wg = 0
    /\ results = <<>>
    /\ wpc = [w \in 1..Len(list) |-> "unborn"]
    /\ wi = [w \in 1..Len(list) |-> 0]
    /\ wrg = [w \in 1..Len(list) |-> ZeroGroup]
    /\ attempt = [w \in 1..Len(list) |-> 0]
    /\ spinnerActive = FALSE
    /\ spinnerDone = "nil"
    /\ spinnerGo = "none"
    /\ spinnerMessage = ""
    /\ spinnerOut = <<>>
    /\ printed = <<>>
    /\ csvData = <<>>
    /\ otherCalls = 0
    /\ saw429 = FALSE
    /\ fetchCalls = [w \in 1..Len(list) |-> 0]
    /\ fetchFailed = {}
    /\ writes = [w \in 1..Len(list) |-> 0]

Init ==
    /\ cfgMaxConcurrency \in ConcurrencyInputs
    /\ porcelain \in BOOLEAN
    /\ outputCSV \in BOOLEAN
    /\ \E n \in 0..MaxGroups : PoolEntry(Listing(n))
    /\ hung = 0
    /\ scripted = <<>>
    /\ viperMaxConcurrency = 0
    /\ mainPc = "entry"
    /\ RequestIdle
    /\ SideIdle

\* The result built from an err shared by all workers (one variable
\* declared outside the goroutines): an error, once set, stays
ResourceGroupResultSharedErr(rg, ret) ==
    LET errs == {results[k].Error : k \in DOMAIN results} \ {NoError}
    IN [filled |-> TRUE, ResourceGroup |-> rg,
        CreatedTime |-> ret.CreatedTime,
        Error |-> IF ret.Error = NoError /\ errs # {}
                  THEN CHOOSE e \in errs : TRUE ELSE ret.Error]

\* The ResourceGroupResult a worker assigns to its slot.
ResourceGroupResult(rg, ret) ==
    [filled |-> TRUE, ResourceGroup |-> rg,
     CreatedTime |-> ret.CreatedTime, Error |-> ret.Error]

\* A send that proceeds on a full channel too
CanAcquireWhenFull(len, cap) == len <= cap

\* A send on the buffered channel semaphore proceeds when it is not full.
CanAcquire(len, cap) == len < cap

\* The index read from the loop variable of the caller instead of the
\* argument of the goroutine
SlotIndexLoopVariable(w) == IF loopI <= N THEN loopI ELSE N

\* The results index a worker assigns: the i it was started with.
SlotIndex(w) == wi[w]

\* A release that is skipped when the fetch returned an error: the
\* goroutine goes straight to wg.Done()
AfterStoreSkipsReleaseOnError(err) ==
    IF err # NoError THEN "wgdone" ELSE "release"

\* Where a worker goes after it has assigned results[i]: the function body
\* ends and the deferred func() { <-semaphore }() runs, whatever the fetch
\* returned.
AfterStore(err) == "release"

\* A wg.Wait() that returns while goroutines are still running
WaitGroupZeroIgnored(counter) == TRUE

\* wg.Wait() returns when the counter of the WaitGroup is zero.
WaitGroupZero(counter) == counter = 0

\* Lines 1054-1068 / 1316-1330: make(results), validateConcurrency,
\* make(semaphore), and NewSpinner + Start unless porcelain.
Setup ==
    /\ mainPc = "entry"
    /\ results' = [k \in 1..N |-> EmptySlot]
    /\ semCap' = validateConcurrency(cfgMaxConcurrency)
    /\ semaphore' = 0
    /\ IF porcelain
       THEN UNCHANGED spinnerVars
       ELSE /\ spinnerActive' = TRUE
            /\ spinnerDone' = "open"
            /\ spinnerGo' = "loop"
            /\ spinnerMessage' = IF outputCSV THEN "Processing resource groups for CSV..."
                                 ELSE "Processing resource groups..."
            /\ UNCHANGED spinnerOut
    /\ loopI' = 1
    /\ mainPc' = "spawn"
    /\ UNCHANGED <<cfgVars, wg, wpc, wi, wrg, attempt, outVars, bookVars, reqVars, sideVars>>

\* One iteration of "for i, rg := range resourceGroups": wg.Add(1) and
\* go func(i, rg).
Spawn ==
    /\ mainPc = "spawn"
    /\ loopI <= N
    /\ wg' = wg + 1
    /\ wpc' = [wpc EXCEPT ![loopI] = "acquire"]
    /\ wi' = [wi EXCEPT ![loopI] = loopI]
    /\ wrg' = [wrg EXCEPT ![loopI] = resourceGroups[loopI]]
    /\ loopI' = loopI + 1
    /\ UNCHANGED <<cfgVars, mainPc, semCap, semaphore, results, attempt,
                   spinnerVars, outVars, bookVars, reqVars, sideVars>>

\* The range loop ends; the caller reaches wg.Wait().
SpawnDone ==
    /\ mainPc = "spawn"
    /\ loopI > N
    /\ mainPc' = "wait"
    /\ UNCHANGED <<cfgVars, loopI, semCap, semaphore, wg, results, wpc, wi, wrg,
                   attempt, spinnerVars, outVars, bookVars, reqVars, sideVars>>

\* semaphore <- struct{}{}, then the call of fetchResourceGroupCreatedTime,
\* which enters makeAzureRequest(url) = makeAzureRequestWithRetry(url, 0).
Acquire(w) ==
    /\ wpc[w] = "acquire"
    /\ CanAcquire(semaphore, semCap)
    /\ semaphore' = semaphore + 1
    /\ wpc' = [wpc EXCEPT ![w] = "call"]
    /\ attempt' = [attempt EXCEPT ![w] = 0]
    /\ fetchCalls' = [fetchCalls EXCEPT ![wi[w]] = @ + 1]
    /\ UNCHANGED <<cfgVars, mainPc, loopI, semCap, wg, results, wi, wrg,
                   spinnerVars, outVars, otherCalls, saw429, fetchFailed, writes, reqVars, sideVars>>

\* the answers HTTPClient.Do can give to a request for the group at index i
AnswersFor(i) == IF scripted = <<>> THEN TransportAnswers ELSE {scripted[i]}

\* ac.HTTPClient.Do(req) answers the call of worker w with 429 and the
\* attempt is below maxRetries: the body is closed and the worker sleeps.
DoRetry(w) ==
    /\ wpc[w] = "call"
    /\ wi[w] # hung
    /\ \E answer \in AnswersFor(wi[w]) :
          /\ RetryOutcome(answer, attempt[w]) = "retry"
          /\ saw429' = (saw429 \/ answer.status = StatusTooManyRequests)
          /\ otherCalls' = IF answer.status = StatusTooManyRequests
                           THEN otherCalls ELSE otherCalls + 1
    /\ wpc' = [wpc EXCEPT ![w] = "sleep"]
    /\ UNCHANGED <<cfgVars, mainPc, loopI, semCap, semaphore, wg, results, wi,
                   wrg, attempt, spinnerVars, outVars, fetchCalls, fetchFailed, writes, reqVars, sideVars>>

\* time.Sleep(totalDelay) ends: makeAzureRequestWithRetry(url, attempt+1).
Wake(w) ==
    /\ wpc[w] = "sleep"
    /\ attempt' = [attempt EXCEPT ![w] = @ + 1]
    /\ wpc' = [wpc EXCEPT ![w] = "call"]
    /\ UNCHANGED <<cfgVars, mainPc, loopI, semCap, semaphore, wg, results, wi,
                   wrg, spinnerVars, outVars, bookVars, reqVars, sideVars>>

\* Do answers the call of worker w and makeAzureRequestWithRetry returns
\* (a response or an error); fetchResourceGroupCreatedTime reads and
\* parses the body and returns, and the worker assigns results[i].
DoReturn(w) ==
    /\ wpc[w] = "call"
    /\ wi[w] # hung
    /\ \E answer \in AnswersFor(wi[w]) :
          LET outcome == RetryOutcome(answer, attempt[w])
              ret == FetchReturn(wrg[w].Name, outcome, answer)
          IN /\ outcome # "retry"
             /\ saw429' = (saw429 \/ answer.status = StatusTooManyRequests)
             /\ otherCalls' = IF answer.status = StatusTooManyRequests
                              THEN otherCalls ELSE otherCalls + 1
             /\ fetchFailed' = IF ret.Error # NoError
                                THEN fetchFailed \cup {wi[w]} ELSE fetchFailed
             /\ results' = [results EXCEPT ![SlotIndex(w)] = ResourceGroupResult(wrg[w], ret)]
             /\ wpc' = [wpc EXCEPT ![w] = AfterStore(ret.Error)]
    /\ writes' = [writes EXCEPT ![SlotIndex(w)] = @ + 1]
    /\ attempt' = [attempt EXCEPT ![w] = 0]
    /\ UNCHANGED <<cfgVars, mainPc, loopI, semCap, semaphore, wg, wi, wrg,
                   spinnerVars, outVars, fetchCalls, reqVars, sideVars>>

\* The deferred func() { <-semaphore }().
Release(w) ==
    /\ wpc[w] = "release"
    /\ semaphore > 0
    /\ semaphore' = semaphore - 1
    /\ wpc' = [wpc EXCEPT ![w] = "wgdone"]
    /\ UNCHANGED <<cfgVars, mainPc, loopI, semCap, wg, results, wi, wrg, attempt,
                   spinnerVars, outVars, bookVars, reqVars, sideVars>>

\* The deferred wg.Done(); the goroutine ends.
WgDone(w) ==
    /\ wpc[w] = "wgdone"
    /\ wg' = wg - 1
    /\ wpc' = [wpc EXCEPT ![w] = "done"]
    /\ UNCHANGED <<cfgVars, mainPc, loopI, semCap, semaphore, results, wi, wrg,
                   attempt, spinnerVars, outVars, bookVars, reqVars, sideVars>>

\* a test "spinner != nil" that never finds a spinner to stop
SpinnerNotNilNever == FALSE

\* "if spinner != nil": the function created a spinner, which it does
\* together with starting it
SpinnerNotNil == spinnerGo # "none"

\* wg.Wait() returns when the counter is zero; with a spinner the caller
\* enters spinner.Stop(): s.active = false, then the send on s.done.
WaitReturn ==
    /\ mainPc = "wait"
    /\ WaitGroupZero(wg)
    /\ IF SpinnerNotNil
       THEN /\ spinnerActive' = FALSE
            /\ mainPc' = "stopSend"
       ELSE /\ mainPc' = "render"
            /\ UNCHANGED spinnerActive
    /\ loopI' = 1
    /\ UNCHANGED <<cfgVars, semCap, semaphore, wg, results, wpc, wi, wrg, attempt,
                   spinnerDone, spinnerGo, spinnerMessage, spinnerOut, outVars, bookVars,
                   reqVars, sideVars>>

\* The animation goroutine takes "case <-s.done" and returns; the send of
\* Stop completes, and Stop closes the channel and clears the line.
SpinnerStop ==
    /\ mainPc = "stopSend"
    /\ spinnerGo = "loop"
    /\ spinnerGo' = "exited"
    /\ spinnerDone' = "closed"
    /\ spinnerOut' = Append(spinnerOut, ClearLine)
    /\ mainPc' = "render"
    /\ UNCHANGED <<cfgVars, loopI, semCap, semaphore, wg, results, wpc, wi, wrg,
                   attempt, spinnerActive, spinnerMessage, outVars, bookVars, reqVars,
                   sideVars>>

\* One iteration of "for _, result := range results": the CSV variant
\* converts and appends the row, both variants print the result.
Render ==
    /\ mainPc = "render"
    /\ loopI <= Len(results)
    /\ printed' = Append(printed, PrintedLine(results[loopI], porcelain))
    /\ csvData' = IF outputCSV THEN Append(csvData, convertToCSVRow(results[loopI], FALSE, <<>>))
                  ELSE csvData
    /\ loopI' = loopI + 1
    /\ UNCHANGED <<cfgVars, mainPc, semCap, semaphore, wg, results, wpc, wi, wrg,
                   attempt, spinnerVars, bookVars, reqVars, sideVars>>

\* The loop over results ends and the processing function returns.
Return ==
    /\ mainPc = "render"
    /\ loopI > Len(results)
    /\ mainPc' = "returned"
    /\ UNCHANGED <<cfgVars, loopI, semCap, semaphore, wg, results, wpc, wi, wrg,
                   attempt, spinnerVars, outVars, bookVars, reqVars, sideVars>>

Next ==
    \/ Setup
    \/ Spawn
    \/ SpawnDone
    \/ \E w \in Workers : Acquire(w)
    \/ \E w \in Workers : DoRetry(w)
    \/ \E w \in Workers : Wake(w)
    \/ \E w \in Workers : DoReturn(w)
    \/ \E w \in Workers : Release(w)
    \/ \E w \in Workers : WgDone(w)
    \/ WaitReturn
    \/ SpinnerStop
    \/ Render
    \/ Return

Spec == Init /\ [][Next]_vars

\* processResourceGroupsConcurrently (the variant without CSV rows) is
\* entered.
LiveInit == Init /\ ~outputCSV

\* The scheduler runs every goroutine that can take a step, every HTTP
\* call is answered and every sleep ends.
LiveSpec == LiveInit /\ [][Next]_vars /\ WF_vars(Next)

\* processResourceGroupsConcurrently is entered with a budget of 1 or more
\* against a transport that never answers the request for one of the groups
\* (or answers every request: hung = 0).
StuckInit ==
    /\ cfgMaxConcurrency \in 1..MaxConc
    /\ porcelain \in BOOLEAN
    /\ outputCSV = FALSE
    /\ \E n \in 0..MaxGroups : PoolEntry(Listing(n)) /\ hung \in 0..n
    /\ scripted = <<>>
    /\ viperMaxConcurrency = 0
    /\ mainPc = "entry"
    /\ RequestIdle
    /\ SideIdle

\* Every goroutine that can take a step is run, every sleep ends, and every
\* HTTP call but the one for the hung group is answered.
StuckSpec == StuckInit /\ [][Next]_vars /\ WF_vars(Next)

\* Answers of a scripted transport: success, throttling, a server error and
\* a transport error.
ScriptAnswers ==
    { [err |-> FALSE, status |-> StatusOK, body |-> "json"],
      [err |-> FALSE, status |-> StatusTooManyRequests, body |-> "rate limited"],
      [err |-> FALSE, status |-> StatusInternalServerError, body |-> "error"],
      [err |-> TRUE,  status |-> 0, body |-> "none"] }

\* One of the two functions (with or without CSV rows) is entered with a
\* list and a transport that gives every request for a group the same
\* answer, as the mock HTTP clients of the tests do.
ScriptedInit ==
    /\ cfgMaxConcurrency \in ConcurrencyInputs
    /\ porcelain \in BOOLEAN
    /\ outputCSV \in BOOLEAN
    /\ \E n \in 0..MaxGroups :
          /\ PoolEntry(Listing(n))
          /\ scripted \in [1..n -> ScriptAnswers]
    /\ hung = 0
    /\ viperMaxConcurrency = 0
    /\ mainPc = "entry"
    /\ RequestIdle
    /\ SideIdle

ScriptedSpec == ScriptedInit /\ [][Next]_vars

(***************************************************************************)
(* FetchResourceGroups: the listing call, the dispatch to one of the four  *)
(* processing functions, and the CSV file                                  *)
(***************************************************************************)
\* Configured values of --max-concurrency tried with the whole command: one
\* below 1 and the largest.
FetchConcurrencyInputs == {0, MaxConc}

\* The error with which FetchResourceGroups returns after the listing call
\* that treats a body that does not parse as an empty listing
ListingErrorIgnoresParse(outcome, answer) ==
    IF outcome # "ok"
    THEN "failed to fetch resource groups: " \o RequestError(outcome, answer)
    ELSE NoError

\* The error with which FetchResourceGroups returns after the listing call
\* ended with the outcome and the answer; nil when it goes on.
ListingError(outcome, answer) ==
    IF outcome # "ok"
    THEN "failed to fetch resource groups: " \o RequestError(outcome, answer)
    ELSE IF answer.body # "json"
    THEN "failed to parse response: invalid character"
    ELSE NoError

\* the error returned when writeCSVFile fails
CSVWriteError == "failed to write CSV file: failed to create CSV file: permission denied"

\* What FetchResourceGroups would return if it handed on the first error
\* found among the results of the groups
FetchResourceGroupsReturnFirstError(writeOK) ==
    LET errs == {results[k].Error : k \in DOMAIN results} \ {NoError}
    IN IF errs # {} THEN CHOOSE e \in errs : TRUE
       ELSE IF outputCSV /\ ~writeOK THEN CSVWriteError ELSE NoError

\* What FetchResourceGroups returns after the processing function: the
\* error of writeCSVFile when a CSV file is asked for and cannot be written,
\* nil otherwise.
FetchResourceGroupsReturn(writeOK) ==
    IF outputCSV /\ ~writeOK THEN CSVWriteError ELSE NoError

\* FetchResourceGroups has called makeAzureRequest for the listing.
FetchInit ==
    /\ cfgMaxConcurrency \in FetchConcurrencyInputs
    /\ porcelain \in BOOLEAN
    /\ outputCSV \in BOOLEAN
    /\ PoolEntry(<<>>)
    /\ hung = 0
    /\ scripted = <<>>
    /\ viperMaxConcurrency = 0
    /\ mainPc = "idle"
    /\ RequestIdle
    /\ ClassIdle
    /\ StorIdle
    /\ CtIdle
    /\ listResources \in BOOLEAN
    /\ fPc = "listing"
    /\ fAttempt = 0
    /\ fAnswer = NoAnswer
    /\ fErr = NoError
    /\ sAttempt = 0

\* The listing call is answered 429 below maxRetries: its frame sleeps.
ListRetry ==
    /\ fPc = "listing"
    /\ \E answer \in TransportAnswers :
          /\ RetryOutcome(answer, fAttempt) = "retry"
          /\ fAnswer' = answer
    /\ fPc' = "listSleep"
    /\ UNCHANGED <<poolVars, reqVars, pureVars, listResources, fAttempt, fErr, sAttempt>>

\* The sleep ends and the listing call is made again.
ListWake ==
    /\ fPc = "listSleep"
    /\ fAttempt' = fAttempt + 1
    /\ fPc' = "listing"
    /\ UNCHANGED <<poolVars, reqVars, pureVars, listResources, fAnswer, fErr, sAttempt>>

\* makeAzureRequest returns for the listing.  With an error, or with a body
\* that does not parse, FetchResourceGroups returns an error.  Otherwise
\* the header is printed and the processing function chosen by
\* list-resources and OutputCSV is entered with the groups of the body.
ListReturn ==
    /\ fPc = "listing"
    /\ \E answer \in TransportAnswers :
          LET outcome == RetryOutcome(answer, fAttempt)
              err == ListingError(outcome, answer)
          IN /\ outcome # "retry"
             /\ fAnswer' = answer
             /\ fErr' = err
             /\ IF err # NoError
                THEN /\ fPc' = "returned"
                     /\ UNCHANGED <<resourceGroups, mainPc, wpc, wi, wrg, attempt,
                                    fetchCalls, writes>>
                ELSE /\ fPc' = "processing"
                     /\ mainPc' = IF listResources THEN "seqEntry" ELSE "entry"
                     /\ \E n \in 0..MaxGroups :
                           /\ resourceGroups' = Listing(n)
                           /\ wpc' = [w \in 1..n |-> "unborn"]
                           /\ wi' = [w \in 1..n |-> 0]
                           /\ wrg' = [w \in 1..n |-> ZeroGroup]
                           /\ attempt' = [w \in 1..n |-> 0]
                           /\ fetchCalls' = [w \in 1..n |-> 0]
                           /\ writes' = [w \in 1..n |-> 0]
    /\ fAttempt' = 0
    /\ UNCHANGED <<cfgMaxConcurrency, viperMaxConcurrency, hung, scripted, porcelain, outputCSV,
                   loopI, semCap, semaphore,
                   wg, results, spinnerVars, outVars, otherCalls, saw429, fetchFailed,
                   reqVars, pureVars, listResources, sAttempt>>

\* what the loop of a WithResources processing function leaves alone
seqFixed ==
    <<cfgVars, semCap, semaphore, wg, results, wpc, wi, wrg, attempt,
      writes, reqVars, pureVars, listResources, fPc, fAttempt, fAnswer, fErr>>

\* fetchResourcesInGroup or listResourcesInGroup is called for the current
\* group: fetchCalls counts the calls of the two for each group
SeqCall == [fetchCalls EXCEPT ![loopI] = @ + 1]

\* the ResourceGroupResult that the loop builds for the current group
SeqResult(err) ==
    [filled |-> TRUE, ResourceGroup |-> resourceGroups[loopI],
     CreatedTime |-> NoTime, Error |-> err]

\* processResourceGroupsConcurrentlyWithResources and its CSV variant are
\* entered: the spinner is started unless porcelain.
SeqSetup ==
    /\ mainPc = "seqEntry"
    /\ IF porcelain
       THEN UNCHANGED spinnerVars
       ELSE /\ spinnerActive' = TRUE
            /\ spinnerDone' = "open"
            /\ spinnerGo' = "loop"
            /\ spinnerMessage' =
                  IF outputCSV THEN "Processing resource groups with resources for CSV..."
                  ELSE "Processing resource groups with resources..."
            /\ UNCHANGED spinnerOut
    /\ loopI' = 1
    /\ mainPc' = "seqLoop"
    /\ UNCHANGED <<seqFixed, outVars, otherCalls, saw429, fetchCalls, fetchFailed, sAttempt>>

\* An iteration of "for _, rg := range resourceGroups" begins.  The CSV
\* variant calls fetchResourcesInGroup; the other one calls
\* printResourceGroupResult(result, true), which prints the line in
\* porcelain mode and calls listResourcesInGroup otherwise.
SeqIterate ==
    /\ mainPc = "seqLoop"
    /\ loopI <= N
    /\ IF outputCSV
       THEN /\ mainPc' = "seqFetch"
            /\ fetchCalls' = SeqCall
            /\ UNCHANGED <<loopI, printed>>
       ELSE IF porcelain
       THEN /\ printed' = Append(printed,
                            printResourceGroupResult(SeqResult(NoError), TRUE, TRUE, ""))
            /\ loopI' = loopI + 1
            /\ UNCHANGED <<mainPc, fetchCalls>>
       ELSE /\ mainPc' = "seqList"
            /\ fetchCalls' = SeqCall
            /\ UNCHANGED <<loopI, printed>>
    /\ sAttempt' = 0
    /\ UNCHANGED <<seqFixed, spinnerVars, csvData, otherCalls, saw429, fetchFailed>>

\* The request of fetchResourcesInGroup or of listResourcesInGroup is
\* answered 429 below maxRetries: its frame sleeps.
SeqRetry ==
    /\ mainPc \in {"seqFetch", "seqList"}
    /\ \E answer \in TransportAnswers :
          /\ RetryOutcome(answer, sAttempt) = "retry"
          /\ saw429' = (saw429 \/ answer.status = StatusTooManyRequests)
          /\ otherCalls' = IF answer.status = StatusTooManyRequests
                           THEN otherCalls ELSE otherCalls + 1
    /\ mainPc' = IF mainPc = "seqFetch" THEN "seqFetchSleep" ELSE "seqListSleep"
    /\ UNCHANGED <<seqFixed, loopI, spinnerVars, outVars, fetchCalls, fetchFailed, sAttempt>>

\* The sleep ends and the request is made again.
SeqWake ==
    /\ mainPc \in {"seqFetchSleep", "seqListSleep"}
    /\ sAttempt' = sAttempt + 1
    /\ mainPc' = IF mainPc = "seqFetchSleep" THEN "seqFetch" ELSE "seqList"
    /\ UNCHANGED <<seqFixed, loopI, spinnerVars, outVars, otherCalls, saw429, fetchCalls,
                   fetchFailed>>

\* fetchResourcesInGroup returns.  With an error the row of the failed
\* group is appended and printResourceGroupResult(result, true) is called,
\* which prints the line in porcelain mode and calls listResourcesInGroup
\* otherwise; without an error the row with the resources is appended and
\* printResourceGroupResultWithResources prints the group.
SeqFetchReturn ==
    /\ mainPc = "seqFetch"
    /\ \E answer \in TransportAnswers :
          LET outcome == RetryOutcome(answer, sAttempt)
              times == ServerCreatedTimes(resourceGroups[loopI].Name)
              ret == fetchResourceGroupCreatedTime(times,
                         RequestError(outcome, answer), answer.body)
          IN /\ outcome # "retry"
             /\ saw429' = (saw429 \/ answer.status = StatusTooManyRequests)
             /\ otherCalls' = IF answer.status = StatusTooManyRequests
                              THEN otherCalls ELSE otherCalls + 1
             /\ IF ret.Error # NoError
                THEN /\ fetchFailed' = fetchFailed \cup {loopI}
                     /\ csvData' = Append(csvData,
                                     convertToCSVRow(SeqResult(ret.Error), TRUE, <<>>))
                     /\ IF porcelain
                        THEN /\ printed' = Append(printed,
                                  printResourceGroupResult(SeqResult(ret.Error), TRUE, TRUE, ""))
                             /\ loopI' = loopI + 1
                             /\ mainPc' = "seqLoop"
                             /\ UNCHANGED fetchCalls
                        ELSE /\ mainPc' = "seqList"
                             /\ fetchCalls' = SeqCall
                             /\ UNCHANGED <<loopI, printed>>
                ELSE /\ csvData' = Append(csvData,
                                     convertToCSVRow(SeqResult(NoError), TRUE, times))
                     /\ printed' = Append(printed,
                           printResourceGroupResultWithResources(SeqResult(NoError),
                                                                 porcelain, times))
                     /\ loopI' = loopI + 1
                     /\ mainPc' = "seqLoop"
                     /\ UNCHANGED <<fetchCalls, fetchFailed>>
    /\ sAttempt' = 0
    /\ UNCHANGED <<seqFixed, spinnerVars>>

\* listResourcesInGroup returns inside printResourceGroupResult: the group
\* is printed with its resources or with the error of the listing.
SeqListReturn ==
    /\ mainPc = "seqList"
    /\ \E answer \in TransportAnswers :
          LET outcome == RetryOutcome(answer, sAttempt)
              times == ServerCreatedTimes(resourceGroups[loopI].Name)
              reqErr == RequestError(outcome, answer)
          IN /\ outcome # "retry"
             /\ saw429' = (saw429 \/ answer.status = StatusTooManyRequests)
             /\ otherCalls' = IF answer.status = StatusTooManyRequests
                              THEN otherCalls ELSE otherCalls + 1
             /\ fetchFailed' = IF reqErr # NoError \/ answer.body # "json"
                               THEN fetchFailed \cup {loopI} ELSE fetchFailed
             /\ printed' = Append(printed,
                              printResourceGroupResult(SeqResult(NoError), FALSE, TRUE,
                                  ListResourcesPrinted(times, reqErr, answer.body)))
    /\ loopI' = loopI + 1
    /\ mainPc' = "seqLoop"
    /\ sAttempt' = 0
    /\ UNCHANGED <<seqFixed, spinnerVars, csvData, fetchCalls>>

\* The loop ends; with a spinner the function enters spinner.Stop().
SeqDone ==
    /\ mainPc = "seqLoop"
    /\ loopI > N
    /\ IF SpinnerNotNil
       THEN /\ spinnerActive' = FALSE
            /\ mainPc' = "seqStopSend"
       ELSE /\ mainPc' = "returned"
            /\ UNCHANGED spinnerActive
    /\ UNCHANGED <<seqFixed, loopI, spinnerDone, spinnerGo, spinnerMessage, spinnerOut,
                   outVars, otherCalls,
                   saw429, fetchCalls, fetchFailed, sAttempt>>

\* The animation goroutine takes "case <-s.done"; Stop returns and so does
\* the processing function.
SeqSpinnerStop ==
    /\ mainPc = "seqStopSend"
    /\ spinnerGo = "loop"
    /\ spinnerGo' = "exited"
    /\ spinnerDone' = "closed"
    /\ spinnerOut' = Append(spinnerOut, ClearLine)
    /\ mainPc' = "returned"
    /\ UNCHANGED <<seqFixed, loopI, spinnerActive, spinnerMessage, outVars, otherCalls, saw429,
                   fetchCalls, fetchFailed, sAttempt>>

\* The processing function has returned: the CSV file is written when one
\* is asked for, and FetchResourceGroups returns.
FrgFinish ==
    /\ fPc = "processing"
    /\ mainPc = "returned"
    /\ \E writeOK \in BOOLEAN : fErr' = FetchResourceGroupsReturn(writeOK)
    /\ fPc' = "returned"
    /\ UNCHANGED <<poolVars, reqVars, pureVars, listResources, fAttempt, fAnswer, sAttempt>>

FetchNext ==
    \/ ListRetry
    \/ ListWake
    \/ ListReturn
    \/ Setup
    \/ Spawn
    \/ SpawnDone
    \/ \E w \in Workers : Acquire(w)
    \/ \E w \in Workers : DoRetry(w)
    \/ \E w \in Workers : Wake(w)
    \/ \E w \in Workers : DoReturn(w)
    \/ \E w \in Workers : Release(w)
    \/ \E w \in Workers : WgDone(w)
    \/ WaitReturn
    \/ SpinnerStop
    \/ Render
    \/ Return
    \/ SeqSetup
    \/ SeqIterate
    \/ SeqRetry
    \/ SeqWake
    \/ SeqFetchReturn
    \/ SeqListReturn
    \/ SeqDone
    \/ SeqSpinnerStop
    \/ FrgFinish

FetchSpec == FetchInit /\ [][FetchNext]_vars

(***************************************************************************)
(* initConfig, followed by the command                                     *)
(***************************************************************************)
\* cobra is about to call initConfig: the Config is still the zero value,
\* the flags and the environment hold the configured values.
ConfigInit ==
    /\ viperMaxConcurrency \in ConcurrencyInputs
    /\ cfgMaxConcurrency = 0
    /\ porcelain \in BOOLEAN
    /\ outputCSV \in BOOLEAN
    /\ PoolEntry(<<>>)
    /\ hung = 0
    /\ scripted = <<>>
    /\ mainPc = "idle"
    /\ RequestIdle
    /\ ClassIdle
    /\ StorIdle
    /\ CtIdle
    /\ listResources \in BOOLEAN
    /\ fPc = "initConfig"
    /\ fAttempt = 0
    /\ fAnswer = NoAnswer
    /\ fErr = NoError
    /\ sAttempt = 0

\* initConfig(): MaxConcurrency is read and a zero replaced by the default;
\* without a subscription ID or an access token log.Fatal ends the program;
\* otherwise the value goes through validateConcurrency, the client is
\* built, and the command calls FetchResourceGroups, which makes the
\* listing call.
InitConfig ==
    /\ fPc = "initConfig"
    /\ \E credentials \in BOOLEAN :
          IF credentials
          THEN /\ cfgMaxConcurrency' = validateConcurrency(initConfig(viperMaxConcurrency))
               /\ fPc' = "listing"
          ELSE /\ cfgMaxConcurrency' = initConfig(viperMaxConcurrency)
               /\ fPc' = "fatal"
    /\ UNCHANGED <<viperMaxConcurrency, hung, scripted, porcelain, outputCSV, resourceGroups,
                   mainPc, loopI, semCap, semaphore, wg, results, wpc, wi, wrg,
                   attempt, spinnerVars, outVars, bookVars, reqVars, pureVars,
                   listResources, fAttempt, fAnswer, fErr, sAttempt>>

ConfigNext == InitConfig \/ FetchNext

ConfigSpec == ConfigInit /\ [][ConfigNext]_vars

(***************************************************************************)
(* A direct call of makeAzureRequest(url), as the tests of the retry make  *)
(* it, against a transport that answers by a script                        *)
(***************************************************************************)
\* The answer of the transport to its c-th call.
ScriptAnswer(c) ==
    IF c <= throttleFirst
    THEN [err |-> FALSE, status |-> StatusTooManyRequests, body |-> "rate limited"]
    ELSE thenAnswer

\* No processing function is running.
PoolIdle ==
    /\ cfgMaxConcurrency = 1
    /\ outputCSV = FALSE
    /\ PoolEntry(<<>>)
    /\ hung = 0
    /\ scripted = <<>>
    /\ viperMaxConcurrency = 0
    /\ mainPc = "idle"

\* makeAzureRequest(url) has called makeAzureRequestWithRetry(url, 0).
RetryInit ==
    /\ PoolIdle
    /\ SideIdle
    /\ porcelain \in BOOLEAN
    /\ throttleFirst \in 0..(maxRetries + 1)
    /\ thenAnswer \in TransportAnswers
    /\ rPc = "call"
    /\ rAttempt = 0
    /\ rReturn = [resp |-> 0, err |-> NoError]
    /\ rCalls = 0
    /\ rAnswers = <<>>
    /\ rSlept = <<>>
    /\ rClosed = <<>>

\* a frame that sleeps and retries without closing the body of the 429
BodyClosesNotOnRetry(outcome) == IF outcome \in {"exhausted", "status"} THEN 1 ELSE 0

\* The calls of resp.Body.Close() a frame makes on the response it got:
\* one before the sleep of a retry, one before the error of an exhausted
\* 429 or of another status is returned, none on a 200, which is handed to
\* the caller; a transport error brings no response.
BodyCloses(outcome) == IF outcome \in {"retry", "exhausted", "status"} THEN 1 ELSE 0

\* Do answers 429 and attempt < maxRetries: the delay is computed, the body
\* closed, and the frame sleeps for totalDelay.
ReqRetry ==
    /\ rPc = "call"
    /\ LET answer == ScriptAnswer(rCalls + 1)
       IN /\ RetryOutcome(answer, rAttempt) = "retry"
          /\ rAnswers' = Append(rAnswers, answer)
          /\ rClosed' = Append(rClosed, BodyCloses("retry"))
    /\ \E jitter \in JitterSamples :
          rSlept' = Append(rSlept, BackoffDelay(rAttempt) + jitter)
    /\ rCalls' = rCalls + 1
    /\ rPc' = "sleep"
    /\ UNCHANGED <<poolVars, sideVars, throttleFirst, thenAnswer, rAttempt, rReturn>>

\* The sleep ends: return ac.makeAzureRequestWithRetry(url, attempt+1).
ReqWake ==
    /\ rPc = "sleep"
    /\ rAttempt' = rAttempt + 1
    /\ rPc' = "call"
    /\ UNCHANGED <<poolVars, sideVars, throttleFirst, thenAnswer, rReturn, rCalls, rAnswers,
                   rSlept, rClosed>>

\* Do returns an error, or a response that is not retried: the call
\* returns (resp, nil) for a 200 and (nil, err) otherwise.  resp is the
\* number of the transport call whose response is handed back, 0 for nil.
ReqReturn ==
    /\ rPc = "call"
    /\ LET answer == ScriptAnswer(rCalls + 1)
           outcome == RetryOutcome(answer, rAttempt)
       IN /\ outcome # "retry"
          /\ rAnswers' = Append(rAnswers, answer)
          /\ rClosed' = Append(rClosed, BodyCloses(outcome))
          /\ rReturn' = [resp |-> IF outcome = "ok" THEN rCalls + 1 ELSE 0,
                         err |-> RequestError(outcome, answer)]
    /\ rCalls' = rCalls + 1
    /\ rPc' = "returned"
    /\ UNCHANGED <<poolVars, sideVars, throttleFirst, thenAnswer, rAttempt, rSlept>>

RetryNext ==
    \/ ReqRetry
    \/ ReqWake
    \/ ReqReturn

RetrySpec == RetryInit /\ [][RetryNext]_vars

\* Every call is answered and every sleep ends.
LiveRetrySpec == RetrySpec /\ WF_vars(RetryNext)

\* The caller of makeAzureRequest, as fetchResourceGroupCreatedTime is: on
\* an error it returns at once; otherwise its deferred function closes the
\* body of the response when the caller returns.
DeferredClose ==
    /\ rPc = "returned"
    /\ rClosed' = IF rReturn.err = NoError
                  THEN [rClosed EXCEPT ![rReturn.resp] = @ + 1]
                  ELSE rClosed
    /\ rPc' = "callerReturned"
    /\ UNCHANGED <<poolVars, sideVars, throttleFirst, thenAnswer, rAttempt, rReturn, rCalls,
                   rAnswers, rSlept>>

\* makeAzureRequest together with its caller
BodySpec == RetryInit /\ [][RetryNext \/ DeferredClose]_vars

(***************************************************************************)
(* checkIfDefaultResourceGroup and the rendering of a group, applied to    *)
(* one name at a time                                                      *)
(***************************************************************************)
\* What a fetch can leave in a result: a timestamp, neither timestamp nor
\* error, an error.
FetchOutcomes ==
    { [CreatedTime |-> 3, Error |-> NoError],
      [CreatedTime |-> NoTime, Error |-> NoError],
      [CreatedTime |-> NoTime,
       Error |-> "failed to fetch resources: failed to make request: EOF"] }

\* the result of a group of the given name with the given fetch outcome
NamedResult(name, outcome) ==
    [filled |-> TRUE,
     ResourceGroup |-> [Name |-> name, Location |-> "eastus",
                        ProvisioningState |-> "Succeeded"],
     CreatedTime |-> outcome.CreatedTime, Error |-> outcome.Error]

\* A name is handed to checkIfDefaultResourceGroup, and two results of a
\* group of that name are about to be rendered.
ClassifyInit ==
    /\ PoolIdle
    /\ porcelain \in BOOLEAN
    /\ RequestIdle
    /\ FrgIdle
    /\ StorIdle
    /\ CtIdle
    /\ cName \in {Text(r) : r \in ClassifierInputs}
    /\ cPc = "call"
    /\ cInfo = [name |-> NotDefault, lower |-> NotDefault, upper |-> NotDefault]
    /\ cOutcomes \in FetchOutcomes \X FetchOutcomes
    /\ cRows = <<>>
    /\ calls = <<>>
    /\ nameLower = <<>>

\* checkIfDefaultResourceGroup is called with the name, with its
\* lower-cased form and with its upper-cased form.
Classify ==
    /\ cPc = "call"
    /\ cInfo' = [name  |-> checkIfDefaultResourceGroup(cName),
                 lower |-> checkIfDefaultResourceGroup(ToLower(cName)),
                 upper |-> checkIfDefaultResourceGroup(ToUpper(cName))]
    /\ cPc' = "classified"
    /\ UNCHANGED <<poolVars, reqVars, frgVars, storVars, ctVars, cName, cOutcomes, cRows, calls, nameLower>>

\* The two results are converted to CSV rows and printed.
RenderTwo ==
    /\ cPc = "classified"
    /\ cRows' = [k \in 1..2 |->
                   LET result == NamedResult(cName, cOutcomes[k])
                   IN [row  |-> convertToCSVRow(result, FALSE, <<>>),
                       line |-> printResourceGroupResult(result, porcelain, FALSE, "")]]
    /\ cPc' = "rendered"
    /\ UNCHANGED <<poolVars, reqVars, frgVars, storVars, ctVars, cName, cInfo, cOutcomes, calls, nameLower>>

ClassifyNext ==
    \/ Classify
    \/ RenderTwo

ClassifySpec == ClassifyInit /\ [][ClassifyNext]_vars

(***************************************************************************)
(* Concurrent calls of checkIfDefaultResourceGroup                         *)
(***************************************************************************)
Callers == 1..MaxCallers

\* the names the concurrent calls are made with: the empty string and the
\* names of the groups of the listing
CallNames == {""} \cup {GroupNames[k] : k \in DOMAIN GroupNames}

\* one nameLower shared by all calls, as a package-level variable would be
NameLowerShared(c) == 1

\* nameLower is a local variable: every call has its own.
NameLowerOf(c) == c

\* Every caller has called checkIfDefaultResourceGroup with a name.
CallsInit ==
    /\ PoolIdle
    /\ porcelain = FALSE
    /\ RequestIdle
    /\ FrgIdle
    /\ StorIdle
    /\ CtIdle
    /\ cName = ""
    /\ cPc = "idle"
    /\ cInfo = <<>>
    /\ cOutcomes = <<>>
    /\ cRows = <<>>
    /\ calls \in [Callers -> {[name |-> n, pc |-> "called", info |-> NotDefault] : n \in CallNames}]
    /\ nameLower = [c \in Callers |-> <<>>]

\* nameLower := strings.ToLower(name)
CallToLower(c) ==
    /\ calls[c].pc = "called"
    /\ nameLower' = [nameLower EXCEPT ![NameLowerOf(c)] = ToLowerRunes(RunesOf[calls[c].name])]
    /\ calls' = [calls EXCEPT ![c].pc = "matching"]
    /\ UNCHANGED <<poolVars, reqVars, frgVars, storVars, ctVars, cName, cPc, cInfo,
                   cOutcomes, cRows>>

\* The patterns are matched against nameLower and the call returns.
CallReturn(c) ==
    /\ calls[c].pc = "matching"
    /\ calls' = [calls EXCEPT ![c].pc = "returned",
                              ![c].info = FirstMatch(nameLower[NameLowerOf(c)])]
    /\ UNCHANGED <<poolVars, reqVars, frgVars, storVars, ctVars, cName, cPc, cInfo,
                   cOutcomes, cRows, nameLower>>

CallsNext ==
    \/ \E c \in Callers : CallToLower(c)
    \/ \E c \in Callers : CallReturn(c)

CallsSpec == CallsInit /\ [][CallsNext]_vars

(***************************************************************************)
(* The Spinner on its own: NewSpinner, Start, the animation goroutine and  *)
(* Stop, called by one goroutine in the orders the type allows (Stop with  *)
(* or without an earlier Start).  s.active is read by the animation and    *)
(* written by Stop without synchronisation; every order of the two is an   *)
(* interleaving below.                                                     *)
(***************************************************************************)
\* the messages the program creates its spinners with
SpinnerMessages ==
    { "Processing storage accounts...",
      "Processing storage accounts for CSV...",
      "Processing resource groups...",
      "Processing resource groups with resources...",
      "Processing resource groups for CSV...",
      "Processing resource groups with resources for CSV..." }

\* no spinner has been created yet
SpinnerInit ==
    /\ PoolIdle
    /\ porcelain = FALSE
    /\ RequestIdle
    /\ SideIdle

\* NewSpinner(message): inactive, with an unbuffered done channel
NewSpinner ==
    /\ mainPc = "idle"
    /\ \E message \in SpinnerMessages : spinnerMessage' = message
    /\ spinnerActive' = FALSE
    /\ spinnerDone' = "open"
    /\ spinnerGo' = "none"
    /\ mainPc' = "spinnerNew"
    /\ UNCHANGED <<cfgVars, semCap, semaphore, wg, results, wpc, wi, wrg, attempt, loopI,
                   spinnerOut, outVars, bookVars, reqVars, sideVars>>

\* Start: s.active = true and the animation goroutine is launched
Start ==
    /\ mainPc = "spinnerNew"
    /\ spinnerActive' = TRUE
    /\ spinnerGo' = "loop"
    /\ mainPc' = "spinnerStarted"
    /\ UNCHANGED <<cfgVars, semCap, semaphore, wg, results, wpc, wi, wrg, attempt, loopI,
                   spinnerDone, spinnerMessage, spinnerOut, outVars, bookVars, reqVars,
                   sideVars>>

\* The default case of the select with s.active true: one frame is printed,
\* i advances and the goroutine sleeps 100 ms.  i is the number of frames
\* printed so far, modulo len(frames).  While Stop is between its write of
\* s.active and its send, the unsynchronised read may still yield true.
StartDefault ==
    /\ spinnerGo = "loop"
    /\ \/ spinnerActive
       \/ mainPc = "spinnerStopping"
    /\ Len(spinnerOut) < MaxFrames
    /\ spinnerOut' = Append(spinnerOut,
                            SpinnerFrame(Len(spinnerOut) % Len(frames), spinnerMessage))
    /\ spinnerGo' = "sleep"
    /\ UNCHANGED <<cfgVars, semCap, semaphore, wg, results, wpc, wi, wrg, attempt, loopI,
                   mainPc, spinnerActive, spinnerDone, spinnerMessage, outVars, bookVars,
                   reqVars, sideVars>>

\* time.Sleep(100 * time.Millisecond) ends: back at the select
StartWake ==
    /\ spinnerGo = "sleep"
    /\ spinnerGo' = "loop"
    /\ UNCHANGED <<cfgVars, semCap, semaphore, wg, results, wpc, wi, wrg, attempt, loopI,
                   mainPc, spinnerActive, spinnerDone, spinnerMessage, spinnerOut, outVars,
                   bookVars, reqVars, sideVars>>

\* Stop, first statement: s.active = false; the caller is now at the send
\* "s.done <- true"
Stop ==
    /\ mainPc \in {"spinnerNew", "spinnerStarted"}
    /\ spinnerActive' = FALSE
    /\ mainPc' = "spinnerStopping"
    /\ UNCHANGED <<cfgVars, semCap, semaphore, wg, results, wpc, wi, wrg, attempt, loopI,
                   spinnerDone, spinnerGo, spinnerMessage, spinnerOut, outVars, bookVars,
                   reqVars, sideVars>>

\* where "case <-s.done" leaves the animation goroutine: it returns
SelectDoneBreaks == "loop"
SelectDone == "exited"

\* The send on the unbuffered channel completes when the animation goroutine
\* is at its select and takes "case <-s.done"; Stop then closes the channel,
\* clears the line and returns.  Without that goroutine nothing receives.
StopSend ==
    /\ mainPc = "spinnerStopping"
    /\ spinnerGo = "loop"
    /\ spinnerGo' = SelectDone
    /\ spinnerDone' = "closed"
    /\ spinnerOut' = Append(spinnerOut, ClearLine)
    /\ mainPc' = "spinnerStopped"
    /\ UNCHANGED <<cfgVars, semCap, semaphore, wg, results, wpc, wi, wrg, attempt, loopI,
                   spinnerActive, spinnerMessage, outVars, bookVars, reqVars, sideVars>>

SpinnerNext == NewSpinner \/ Start \/ StartDefault \/ StartWake \/ Stop \/ StopSend

\* the goroutines are scheduled: an enabled step is eventually taken
SpinnerSpec == SpinnerInit /\ [][SpinnerNext]_vars /\ WF_vars(SpinnerNext)

(***************************************************************************)
(* fetchResourceGroupCreatedTime called on its own, as its tests call it,  *)
(* for a group whose resources are drawn                                   *)
(***************************************************************************)
\* a createdTime of a resource: nil or a timestamp
TimeValues == {NoTime} \cup (1..MaxTime)

\* the createdTime of the resources of a group, in the order served
ResourceTimes == UNION {[1..n -> TimeValues] : n \in 0..MaxResources}

\* fetchResourceGroupCreatedTime(name) has called makeAzureRequest(url); the
\* transport throttles at most the first call.
CreatedInit ==
    /\ PoolIdle
    /\ porcelain = FALSE
    /\ FrgIdle
    /\ ClassIdle
    /\ StorIdle
    /\ throttleFirst \in 0..1
    /\ thenAnswer \in TransportAnswers
    /\ rPc = "call"
    /\ rAttempt = 0
    /\ rReturn = [resp |-> 0, err |-> NoError]
    /\ rCalls = 0
    /\ rAnswers = <<>>
    /\ rSlept = <<>>
    /\ rClosed = <<>>
    /\ ctTimes \in ResourceTimes
    /\ ctPc = "call"
    /\ ctReturn = [CreatedTime |-> NoTime, Error |-> NoError]

\* makeAzureRequest has returned: the body is read and parsed, the loop
\* over the resources runs and the function returns.
CtReturn ==
    /\ ctPc = "call"
    /\ rPc = "returned"
    /\ LET body == IF rReturn.resp # 0 THEN rAnswers[rReturn.resp].body ELSE "none"
       IN ctReturn' = fetchResourceGroupCreatedTime(ctTimes, rReturn.err, body)
    /\ ctPc' = "returned"
    /\ UNCHANGED <<poolVars, reqVars, frgVars, classVars, storVars, ctTimes>>

CreatedNext ==
    \/ ReqRetry
    \/ ReqWake
    \/ ReqReturn
    \/ CtReturn

CreatedSpec == CreatedInit /\ [][CreatedNext]_vars

(***************************************************************************)
(* printStorageAccountResults: the oldest Standard DNS accounts of each    *)
(* location                                                                *)
(***************************************************************************)
\* the creation times T1 < T2 < T3 of storage accounts, and nil
StorageTimes == {NoTime, 1, 2, 3}

\* the account types that isStandardDNSAccount accepts
StandardDNSTypes == {"Standard_LRS", "Standard_GRS"}

isStandardDNSAccount(accountType) == accountType \in StandardDNSTypes

\* Where the accounts of a result list lie, of what type they are and
\* which of them failed, by position: all in one location and Standard;
\* alternating between two locations; one Premium account and one failed
\* account among Standard ones; two locations with an account of no type
\* and failed accounts in both.
AccountProfiles ==
    { [k \in 1..(MaxAccounts + 1) |->
          [Location |-> "eastus", AccountType |-> "Standard_LRS", Failed |-> FALSE]],
      [k \in 1..(MaxAccounts + 1) |->
          [Location |-> IF k % 2 = 1 THEN "eastus" ELSE "westus",
           AccountType |-> "Standard_GRS", Failed |-> FALSE]],
      [k \in 1..(MaxAccounts + 1) |->
          [Location |-> "eastus",
           AccountType |-> IF k = 2 THEN "Premium_LRS" ELSE "Standard_LRS",
           Failed |-> (k = 3)]],
      [k \in 1..(MaxAccounts + 1) |->
          [Location |-> IF k % 2 = 1 THEN "eastus" ELSE "westus",
           AccountType |-> IF k = 1 THEN "" ELSE "Standard_LRS",
           Failed |-> (k \in {2, 5})]] }

\* the k-th StorageAccountResult of a list
StorageAccountResult(k, t, profile) ==
    [Name |-> "storage" \o ToString(k),
     Location |-> profile.Location,
     AccountType |-> profile.AccountType,
     CreatedTime |-> IF profile.Failed THEN NoTime ELSE t,
     Error |-> IF profile.Failed THEN "failed to fetch storage account" ELSE NoError]

\* a comparison that places the accounts without a creation time first
OlderFirstNilFirst(a, b) ==
    IF a.CreatedTime = NoTime THEN b.CreatedTime # NoTime
    ELSE IF b.CreatedTime = NoTime THEN FALSE
    ELSE Before(a.CreatedTime, b.CreatedTime)

\* the less function handed to sort.Slice: nil times go to the end
OlderFirst(a, b) ==
    IF a.CreatedTime = NoTime THEN FALSE
    ELSE IF b.CreatedTime = NoTime THEN TRUE
    ELSE Before(a.CreatedTime, b.CreatedTime)

\* One pass of the insertion sort that sort.Slice runs on a short slice:
\* x moves left while it is less than its left neighbour.
RECURSIVE InsertSorted(_, _)
InsertSorted(sorted, x) ==
    IF sorted = <<>> THEN <<x>>
    ELSE IF OlderFirst(x, sorted[Len(sorted)])
    THEN Append(InsertSorted(SubSeq(sorted, 1, Len(sorted) - 1), x), sorted[Len(sorted)])
    ELSE Append(sorted, x)

\* sort.Slice(sortedAccounts, less) on a copy of the accounts
RECURSIVE SortByCreation(_)
SortByCreation(accounts) ==
    IF accounts = <<>> THEN <<>>
    ELSE InsertSorted(SortByCreation(SubSeq(accounts, 1, Len(accounts) - 1)),
                      accounts[Len(accounts)])

\* the number of oldest accounts shown per location
OldestShown == 5

\* Created.Format("2006-01-02") of a model timestamp
FormatDate(t) == "2023-01-0" \o ToString(t)

\* standardDNSAccounts[location]: the results without error of the
\* location whose type is a Standard DNS one, in the order of results
StandardDNSAccounts(rs, location) ==
    LET Kept(r) == /\ r.Error = NoError
                   /\ r.Location = location
                   /\ isStandardDNSAccount(r.AccountType)
    IN SelectSeq(rs, Kept)

\* the lines "- name (Created: date)" printed for a location; Time is the
\* timestamp the date was formatted from
OldestAccounts(rs, location) ==
    LET sortedAccounts == SortByCreation(StandardDNSAccounts(rs, location))
        shown == IF Len(sortedAccounts) < OldestShown
                 THEN Len(sortedAccounts) ELSE OldestShown
    IN [i \in 1..shown |->
          [Name    |-> sortedAccounts[i].Name,
           Created |-> IF sortedAccounts[i].CreatedTime # NoTime
                       THEN FormatDate(sortedAccounts[i].CreatedTime)
                       ELSE "Not available",
           Time    |-> sortedAccounts[i].CreatedTime]]

\* a tally that counts a result whether or not it carries an error
CountResultWithErrors(counts, r) ==
    LET accountType == IF r.AccountType = "" THEN "Unknown" ELSE r.AccountType
        ofLocation == IF r.Location \in DOMAIN counts THEN counts[r.Location] ELSE <<>>
        count == IF accountType \in DOMAIN ofLocation THEN ofLocation[accountType] ELSE 0
    IN [l \in DOMAIN counts \cup {r.Location} |->
          IF l = r.Location
          THEN [ty \in DOMAIN ofLocation \cup {accountType} |->
                   IF ty = accountType THEN count + 1 ELSE ofLocation[ty]]
          ELSE counts[l]]

\* One round of the first loop: a result with an error is reported and
\* skipped; otherwise locationCounts[location][accountType]++, an empty
\* account type counted as "Unknown".
CountResult(counts, r) ==
    IF r.Error # NoError THEN counts
    ELSE LET accountType == IF r.AccountType = "" THEN "Unknown" ELSE r.AccountType
             ofLocation == IF r.Location \in DOMAIN counts THEN counts[r.Location] ELSE <<>>
             count == IF accountType \in DOMAIN ofLocation THEN ofLocation[accountType] ELSE 0
         IN [l \in DOMAIN counts \cup {r.Location} |->
               IF l = r.Location
               THEN [ty \in DOMAIN ofLocation \cup {accountType} |->
                        IF ty = accountType THEN count + 1 ELSE ofLocation[ty]]
               ELSE counts[l]]

\* locationCounts after the first loop over the results
RECURSIVE locationCounts(_)
locationCounts(rs) ==
    IF rs = <<>> THEN <<>>
    ELSE CountResult(locationCounts(SubSeq(rs, 1, Len(rs) - 1)), rs[Len(rs)])

\* totalInLocation: the counts of the account types of a location, added up
RECURSIVE totalInLocation(_)
totalInLocation(accountTypes) ==
    IF DOMAIN accountTypes = {} THEN 0
    ELSE LET accountType == CHOOSE ty \in DOMAIN accountTypes : TRUE
         IN accountTypes[accountType]
            + totalInLocation([ty \in DOMAIN accountTypes \ {accountType} |-> accountTypes[ty]])

\* printStorageAccountResults(results) is called.
StorageInit ==
    /\ PoolIdle
    /\ porcelain = FALSE
    /\ RequestIdle
    /\ FrgIdle
    /\ ClassIdle
    /\ CtIdle
    /\ \E n \in 0..MaxAccounts : \E times \in [1..n -> StorageTimes] :
          \E profile \in AccountProfiles :
             saResults = [k \in 1..n |-> StorageAccountResult(k, times[k], profile[k])]
    /\ saPc = "call"
    /\ saOldest = <<>>
    /\ saTotals = <<>>

\* The function groups the results and prints the summary, for every
\* location counted its "Total:", and the analysis: for every location
\* with a Standard DNS account, its oldest accounts.
PrintStorageAccountResults ==
    /\ saPc = "call"
    /\ LET locations ==
              {saResults[k].Location :
                  k \in {i \in 1..Len(saResults) :
                            /\ saResults[i].Error = NoError
                            /\ isStandardDNSAccount(saResults[i].AccountType)}}
       IN saOldest' = [l \in locations |-> OldestAccounts(saResults, l)]
    /\ LET counts == locationCounts(saResults)
       IN saTotals' = [l \in DOMAIN counts |-> totalInLocation(counts[l])]
    /\ saPc' = "returned"
    /\ UNCHANGED <<poolVars, reqVars, frgVars, classVars, ctVars, saResults>>

StorageNext == PrintStorageAccountResults

StorageSpec == StorageInit /\ [][StorageNext]_vars

\* processStorageAccountsConcurrently(storageAccounts) is entered.
ProcessStorageInit ==
    /\ PoolIdle
    /\ porcelain \in BOOLEAN
    /\ RequestIdle
    /\ FrgIdle
    /\ ClassIdle
    /\ CtIdle
    /\ saResults = <<>>
    /\ saPc = "entry"
    /\ saOldest = <<>>
    /\ saTotals = <<>>

\* The spinner is created and started unless in porcelain mode, and the
\* loop fills results: the creation time of the properties, that of the
\* root level when the properties have none, and no error.
ProcessStorageSetup ==
    /\ saPc = "entry"
    /\ IF porcelain
       THEN UNCHANGED spinnerVars
       ELSE /\ spinnerActive' = TRUE
            /\ spinnerDone' = "open"
            /\ spinnerGo' = "loop"
            /\ spinnerMessage' = "Processing storage accounts..."
            /\ UNCHANGED spinnerOut
    /\ \E n \in 0..MaxStorageAccounts :
          \E ofProperties \in [1..n -> {NoTime, 1}] : \E ofRoot \in [1..n -> {NoTime, 2}] :
             saResults' =
                [k \in 1..n |->
                    StorageAccountResult(
                       k,
                       IF ofProperties[k] = NoTime THEN ofRoot[k] ELSE ofProperties[k],
                       [Location |-> IF k % 2 = 1 THEN "eastus" ELSE "westus",
                        AccountType |-> "Standard_LRS", Failed |-> FALSE])]
    /\ saPc' = "stop"
    /\ UNCHANGED <<cfgVars, mainPc, loopI, semCap, semaphore, wg, results, wpc, wi, wrg,
                   attempt, outVars, bookVars, reqVars, frgVars, classVars, ctVars,
                   saOldest, saTotals>>

\* "if spinner != nil { spinner.Stop() }": Stop sets s.active to false and
\* is at its send; without a spinner printStorageAccountResults is called.
ProcessStorageStop ==
    /\ saPc = "stop"
    /\ IF SpinnerNotNil
       THEN /\ spinnerActive' = FALSE
            /\ saPc' = "stopSend"
       ELSE /\ saPc' = "call"
            /\ UNCHANGED spinnerActive
    /\ UNCHANGED <<cfgVars, mainPc, loopI, semCap, semaphore, wg, results, wpc, wi, wrg,
                   attempt, spinnerDone, spinnerGo, spinnerMessage, spinnerOut, outVars,
                   bookVars, reqVars, frgVars, classVars, ctVars, saResults, saOldest,
                   saTotals>>

\* The animation goroutine takes "case <-s.done"; Stop returns and
\* printStorageAccountResults is called.
ProcessStorageSpinnerStop ==
    /\ saPc = "stopSend"
    /\ spinnerGo = "loop"
    /\ spinnerGo' = "exited"
    /\ spinnerDone' = "closed"
    /\ spinnerOut' = Append(spinnerOut, ClearLine)
    /\ saPc' = "call"
    /\ UNCHANGED <<cfgVars, mainPc, loopI, semCap, semaphore, wg, results, wpc, wi, wrg,
                   attempt, spinnerActive, spinnerMessage, outVars, bookVars, reqVars,
                   frgVars, classVars, ctVars, saResults, saOldest, saTotals>>

ProcessStorageNext ==
    \/ ProcessStorageSetup
    \/ ProcessStorageStop
    \/ ProcessStorageSpinnerStop
    \/ PrintStorageAccountResults

\* A processing function runs: one of the four for resource groups, from
\* FetchResourceGroups, or the one for storage accounts.
ProcessingSpec ==
    /\ FetchInit \/ ProcessStorageInit
    /\ [][FetchNext \/ ProcessStorageNext]_vars

(***************************************************************************)
(* Properties                                                              *)
(***************************************************************************)
\* Workers between acquiring and releasing the semaphore.
InFlight == {w \in Workers : wpc[w] \in {"call", "sleep", "release"}}

\* wg.Wait() has returned.
Joined == mainPc \in {"stopSend", "render", "returned"}

\* The result of group i when its fetch succeeds.
SuccessResult(i) ==
    [filled |-> TRUE, ResourceGroup |-> resourceGroups[i],
     CreatedTime |-> Earliest(ServerCreatedTimes(resourceGroups[i].Name)),
     Error |-> NoError]

\* C1: with a configured MaxConcurrency C >= 1, the number of workers
\* between acquiring and releasing the semaphore never exceeds C.
C1_ConcurrencyCeiling ==
    cfgMaxConcurrency >= 1 => Cardinality(InFlight) <= cfgMaxConcurrency

\* C workers hold the semaphore and another one waits to acquire it.
C1_Witness ==
    /\ cfgMaxConcurrency >= 1
    /\ Cardinality(InFlight) = cfgMaxConcurrency
    /\ \E w \in Workers : wpc[w] = "acquire"

\* C2: every stored result holds the group of its own index; after the
\* join there are exactly N results, all stored; the lines printed and the
\* CSV rows follow the input order, one per group once the function has
\* returned.
C2_ResultsInInputOrder ==
    /\ \A i \in 1..Len(results) :
          results[i].filled => results[i].ResourceGroup = resourceGroups[i]
    /\ Joined => /\ Len(results) = N
                 /\ \A i \in 1..N : results[i].filled
    /\ \A k \in 1..Len(printed) : printed[k].Name = resourceGroups[k].Name
    /\ \A k \in 1..Len(csvData) :
          csvData[k].ResourceGroupName = resourceGroups[k].Name
    /\ mainPc = "returned" =>
          /\ Len(printed) = N
          /\ Len(csvData) = IF outputCSV THEN N ELSE 0

\* The worker of the second group has finished while the one of the first
\* group still waits for its HTTP answer.
C2_Witness ==
    /\ N >= 2
    /\ mainPc = "wait"
    /\ wpc[2] = "done"
    /\ results[2].filled
    /\ wpc[1] = "call"
    /\ ~results[1].filled

\* C3: whatever MaxConcurrency is configured (0 and negatives included),
\* the processing function eventually returns.
C3_EventuallyReturns == <>(mainPc = "returned")

\* The function has returned for a configured value below 1, with at
\* least two groups.
C3_Witness ==
    /\ mainPc = "returned"
    /\ cfgMaxConcurrency < 1
    /\ N >= 2

\* C4: when the function has returned and the fetch of exactly one group
\* failed, every group has a result, the failing group's result alone
\* carries an error, and every other result is the one a successful fetch
\* of that group gives.
C4_FailureIsolated ==
    (mainPc = "returned" /\ Cardinality(fetchFailed) = 1) =>
        \A i \in 1..N :
            /\ results[i].filled
            /\ i \in fetchFailed => results[i].Error # NoError
            /\ i \notin fetchFailed => results[i] = SuccessResult(i)

\* Two groups, the fetch of the first failed and the second one has its
\* timestamp or none.
C4_Witness ==
    /\ mainPc = "returned"
    /\ N >= 2
    /\ fetchFailed = {1}
    /\ results[2] = SuccessResult(2)

\* C5: no slot is assigned twice, no two workers assign the same slot, a
\* slot is filled exactly when it has been assigned once, and after the
\* join every slot has been assigned, failed fetches included.
C5_SlotWrittenOnce ==
    /\ \A i \in 1..N : writes[i] <= 1
    /\ \A i \in 1..Len(results) : results[i].filled <=> writes[i] = 1
    /\ \A v, w \in Workers :
          (v # w /\ wpc[v] # "unborn" /\ wpc[w] # "unborn")
              => SlotIndex(v) # SlotIndex(w)
    /\ Joined => \A i \in 1..N : writes[i] = 1

\* After the join of two or more workers, one of which had a failed fetch.
C5_Witness ==
    /\ Joined
    /\ N >= 2
    /\ fetchFailed # {}
    /\ \A i \in 1..N : writes[i] = 1 /\ results[i].filled

\* C6: fetchResourceGroupCreatedTime is never called twice for a group,
\* it has been called exactly once for each group after the join, and when
\* no call was answered 429 the HTTP calls made (then all counted by
\* otherCalls) are exactly N when the function returns.
C6_FetchedExactlyOnce ==
    /\ \A i \in 1..N : fetchCalls[i] <= 1
    /\ Joined => \A i \in 1..N : fetchCalls[i] = 1
    /\ (mainPc = "returned" /\ ~saw429) => otherCalls = N

\* Returned without any 429, with a failed fetch among two or more.
C6_Witness ==
    /\ mainPc = "returned"
    /\ ~saw429
    /\ N >= 2
    /\ fetchFailed # {}
    /\ otherCalls = N

\* C7: validateConcurrency gives 1 below 1 and its argument from 1 on, and
\* the capacity of the semaphore is that value of the configured
\* MaxConcurrency, hence at least 1.
C7_ValidateConcurrency ==
    /\ \A n \in -8..8 :
          validateConcurrency(n) = IF n < 1 THEN 1 ELSE n
    /\ mainPc # "entry" =>
          /\ semCap = IF cfgMaxConcurrency < 1 THEN 1 ELSE cfgMaxConcurrency
          /\ semCap >= 1

\* Configured 0: the semaphore has capacity 1 and a worker holds it.
C7_Witness ==
    /\ cfgMaxConcurrency = 0
    /\ semCap = 1
    /\ semaphore = 1

\* The transport answers 429 to every call.
Always429 == ~thenAnswer.err /\ thenAnswer.status = StatusTooManyRequests

\* The transport answers 200 to the first call that it does not throttle.
ThenOK == ~thenAnswer.err /\ thenAnswer.status = StatusOK

\* C8: against a transport that answers 429 to the first k calls and 200
\* to call k+1, k <= maxRetries, a returned makeAzureRequest has returned
\* the response of call k+1 with no error, after exactly k+1 calls.
C8_SuccessAfterThrottling ==
    (rPc = "returned" /\ ThenOK /\ throttleFirst <= maxRetries) =>
        /\ rReturn.err = NoError
        /\ rReturn.resp = throttleFirst + 1
        /\ rCalls = throttleFirst + 1

\* 429, 429, 200: returned with success after 3 calls.
C8_Witness ==
    /\ rPc = "returned"
    /\ ThenOK
    /\ throttleFirst = 2
    /\ rCalls = 3
    /\ rReturn.err = NoError

\* C9: against a transport that answers 429 to every call, makeAzureRequest
\* never returns a response, never sleeps more than maxRetries times nor
\* makes more than maxRetries+1 calls, and eventually returns an error.
C9_ExhaustedRetries ==
    /\ [](Always429 => /\ rReturn.resp = 0
                       /\ Len(rSlept) <= maxRetries
                       /\ rCalls <= maxRetries + 1)
    /\ <>(Always429 => /\ rPc = "returned"
                       /\ rReturn.err # NoError
                       /\ rReturn.resp = 0)

\* Returned with an error after maxRetries+1 calls, all answered 429.
C9_Witness ==
    /\ Always429
    /\ rPc = "returned"
    /\ rReturn.err # NoError
    /\ rCalls = maxRetries + 1
    /\ Len(rSlept) = maxRetries

\* C10: when Do has returned an error to the j-th call, makeAzureRequest
\* has returned an error and no response, and the j-th call is the last
\* one made.
C10_TransportErrorNotRetried ==
    \A j \in 1..Len(rAnswers) :
        rAnswers[j].err =>
            /\ rPc = "returned"
            /\ rCalls = j
            /\ rReturn.err # NoError
            /\ rReturn.resp = 0

\* A transport error after two 429 answers: returned after 3 calls.
C10_Witness ==
    /\ rPc = "returned"
    /\ throttleFirst = 2
    /\ thenAnswer.err
    /\ rCalls = 3
    /\ rReturn.err # NoError

\* The transport answers a status other than 200 and 429 to the first call
\* that it does not throttle.
ThenOtherStatus ==
    /\ ~thenAnswer.err
    /\ thenAnswer.status \notin {StatusOK, StatusTooManyRequests}

\* C11: when the j-th call is answered with a status other than 200 and
\* 429, makeAzureRequest has returned an error and no response and the
\* j-th call is the last one made; and a returned makeAzureRequest hands
\* back a response with no error exactly when its last call was answered
\* 200, an error and no response otherwise.
C11_OtherStatusFailsAtOnce ==
    /\ \A j \in 1..Len(rAnswers) :
          (~rAnswers[j].err
             /\ rAnswers[j].status \notin {StatusOK, StatusTooManyRequests}) =>
                /\ rPc = "returned"
                /\ rCalls = j
                /\ rReturn.err # NoError
                /\ rReturn.resp = 0
    /\ rPc = "returned" =>
          LET last == rAnswers[Len(rAnswers)]
          IN /\ (rReturn.resp # 0 /\ rReturn.err = NoError)
                    <=> (~last.err /\ last.status = StatusOK)
             /\ (rReturn.resp = 0 /\ rReturn.err # NoError)
                    <=> (last.err \/ last.status # StatusOK)

\* A 500 after one 429: returned with an error after 2 calls and one sleep.
C11_Witness ==
    /\ rPc = "returned"
    /\ throttleFirst = 1
    /\ ThenOtherStatus
    /\ thenAnswer.status = StatusInternalServerError
    /\ rCalls = 2
    /\ Len(rSlept) = 1
    /\ rReturn.err # NoError
    /\ rReturn.resp = 0

\* C12: the k-th sleep of a call, the one that follows the 429 answer to
\* attempt a = k-1, lasts base*2^a plus a jitter from 0 up to but not
\* including 1000 ms, with base = 1000 ms; hence the sleeps before the
\* third call add up to at least base*(1+2).
C12_BackoffDelay ==
    /\ \A k \in 1..Len(rSlept) :
          /\ rSlept[k] >= 1000 * 2^(k - 1)
          /\ rSlept[k] < 1000 * 2^(k - 1) + 1000
    /\ Len(rSlept) >= 2 => rSlept[1] + rSlept[2] >= 1000 * (1 + 2)

\* Three 429 answers: the third sleep is 4000 ms plus the largest jitter
\* and the fourth call is under way.
C12_Witness ==
    /\ Len(rSlept) = 3
    /\ rSlept[1] = 1000
    /\ rSlept[3] = 4999
    /\ rAttempt = 3
    /\ rPc = "call"

\* C15: for an empty list the pool never has a result slot, a worker, a
\* held admission unit, a fetch, an HTTP call, a printed line or a CSV row,
\* it never waits for a worker, and it returns an empty result sequence.
C15_EmptyListNoWork ==
    Len(resourceGroups) = 0 =>
        /\ results = <<>>
        /\ DOMAIN wpc = {}
        /\ wg = 0
        /\ semaphore = 0
        /\ DOMAIN fetchCalls = {}
        /\ otherCalls = 0
        /\ ~saw429
        /\ printed = <<>>
        /\ csvData = <<>>
        /\ mainPc = "wait" => ENABLED WaitReturn

\* The CSV variant has returned for an empty list, with its spinner
\* started and stopped.
C15_Witness ==
    /\ Len(resourceGroups) = 0
    /\ mainPc = "returned"
    /\ outputCSV
    /\ spinnerGo = "exited"
    /\ semCap >= 1
    /\ results = <<>>

\* C16: the CSV rows are one per group, in order; the row of a group whose
\* fetch failed carries "Error: " followed by the error of the fetch, the
\* row of a group fetched without a timestamp carries "Not available", and
\* the two texts never coincide.
C16_FailedRowKept ==
    /\ (mainPc = "returned" /\ outputCSV) => Len(csvData) = Len(resourceGroups)
    /\ \A k \in 1..Len(csvData) :
          /\ csvData[k].ResourceGroupName = resourceGroups[k].Name
          /\ k \in fetchFailed =>
                /\ results[k].Error # NoError
                /\ csvData[k].CreatedTime = "Error: " \o results[k].Error
          /\ (k \notin fetchFailed /\ results[k].CreatedTime = NoTime) =>
                csvData[k].CreatedTime = "Not available"
          /\ \A j \in 1..Len(csvData) :
                (k \in fetchFailed /\ j \notin fetchFailed) =>
                    csvData[k].CreatedTime # csvData[j].CreatedTime

\* Two rows: the first of a failed fetch, the second of a group without a
\* timestamp.
C16_Witness ==
    /\ mainPc = "returned"
    /\ outputCSV
    /\ Len(csvData) = 2
    /\ fetchFailed = {1}
    /\ results[2].CreatedTime = NoTime
    /\ csvData[2].CreatedTime = "Not available"
    /\ csvData[1].CreatedTime # "Not available"

\* the classification fields of a CSV row or of a printed line
Classification(r) == <<r.IsDefault, r.CreatedBy, r.Description>>

\* C17: the two results of one name, whatever their fetch outcomes, get
\* the same IsDefault, CreatedBy and Description in their CSV rows and in
\* their printed lines, and the CSV row carries the classification of the
\* name.
C17_ClassificationByNameOnly ==
    cPc = "rendered" =>
        /\ Classification(cRows[1].row) = Classification(cRows[2].row)
        /\ Classification(cRows[1].line) = Classification(cRows[2].line)
        /\ \A k \in 1..2 :
              /\ cRows[k].row.IsDefault = BoolText(cInfo.name.IsDefault)
              /\ cRows[k].row.CreatedBy = cInfo.name.CreatedBy
              /\ cRows[k].row.Description = cInfo.name.Description
              /\ cRows[k].line.IsDefault = cRows[k].row.IsDefault

\* A default group rendered once with a timestamp and once with an error:
\* the rows differ in CreatedTime and both say Azure Network Watcher.
C17_Witness ==
    /\ cPc = "rendered"
    /\ cName = "NetworkWatcherRG"
    /\ cOutcomes[1].Error = NoError
    /\ cOutcomes[1].CreatedTime # NoTime
    /\ cOutcomes[2].Error # NoError
    /\ cRows[1].row.CreatedTime # cRows[2].row.CreatedTime
    /\ cRows[2].row.IsDefault = "true"
    /\ cRows[2].row.CreatedBy = "Azure Network Watcher"

\* The name has runes of ASCII only.
IsASCII(name) ==
    \A i \in 1..Len(RunesOf[name]) : RunesOf[name][i] \notin {DotlessI, KelvinSign}

\* Upper-casing the name and lower-casing the outcome gives the lower-cased
\* name.
UpperLowersBack(name) ==
    ToLowerRunes(ToUpperRunes(RunesOf[name])) = ToLowerRunes(RunesOf[name])

\* the results the tests document for three names
DocumentedExamples ==
    /\ cName = "DefaultResourceGroup-EUS" =>
          /\ cInfo.name.IsDefault
          /\ cInfo.name.CreatedBy = "Azure CLI / Cloud Shell / Visual Studio"
    /\ cName = "MC_myRG_myAKS_eastus" =>
          /\ cInfo.name.IsDefault
          /\ cInfo.name.CreatedBy = "Azure Kubernetes Service (AKS)"
    /\ cName = "my-custom-rg" => cInfo.name = NotDefault

\* C20 as stated: for every name the results for the name, for its
\* lower-cased form and for its upper-cased form are identical, and the
\* three examples get their documented results.
C20_CaseInsensitiveEveryName ==
    cPc # "call" =>
        /\ cInfo.lower = cInfo.name
        /\ cInfo.upper = cInfo.name
        /\ DocumentedExamples

\* C20 amended: for every name the results for the name and for its
\* lower-cased form are identical; the result for the upper-cased form is
\* identical too whenever the upper-cased form lower-cases to the
\* lower-cased name, which every name of ASCII runes does; the three
\* examples get their documented results.
C20_CaseInsensitiveASCII ==
    /\ \A r \in ClassifierInputs :
          IsASCII(Text(r)) => UpperLowersBack(Text(r))
    /\ cPc # "call" =>
          /\ cInfo.lower = cInfo.name
          /\ UpperLowersBack(cName) => cInfo.upper = cInfo.name
          /\ IsASCII(cName) => cInfo.upper = cInfo.name
          /\ DocumentedExamples

\* A mixed-case AKS name: its upper-cased form is classified like the name.
C20_Witness ==
    /\ cPc = "classified"
    /\ cName = "MC_myRG_myAKS_eastus"
    /\ ToUpper(cName) # cName
    /\ ToLower(cName) # cName
    /\ cInfo.upper.IsDefault
    /\ cInfo.upper.CreatedBy = "Azure Kubernetes Service (AKS)"
    /\ cInfo.lower = cInfo.upper

\* the non-nil createdTime values of the resources served
ServedTimes == {ctTimes[i] : i \in 1..Len(ctTimes)} \ {NoTime}

\* C19: when the request succeeded and the body parsed,
\* fetchResourceGroupCreatedTime returns no error and the least of the
\* non-nil createdTime values of the resources, nil when there is none (no
\* resource, or no resource with a createdTime).
C19_EarliestCreatedTime ==
    (ctPc = "returned" /\ rReturn.err = NoError
        /\ rAnswers[rReturn.resp].body = "json") =>
            /\ ctReturn.Error = NoError
            /\ ServedTimes = {} => ctReturn.CreatedTime = NoTime
            /\ ServedTimes # {} =>
                  /\ ctReturn.CreatedTime \in ServedTimes
                  /\ \A t \in ServedTimes : ctReturn.CreatedTime <= t

\* Resources created at 3, never and 1, fetched after one 429: 1 is
\* returned.
C19_Witness ==
    /\ ctPc = "returned"
    /\ ctTimes = <<3, NoTime, 1>>
    /\ throttleFirst = 1
    /\ ctReturn = [CreatedTime |-> 1, Error |-> NoError]

\* the results of a location that the oldest-accounts view draws from
ViewCandidates(location) ==
    {k \in 1..Len(saResults) :
        /\ saResults[k].Error = NoError
        /\ saResults[k].Location = location
        /\ saResults[k].AccountType \in {"Standard_LRS", "Standard_GRS"}}

\* the creation times of the results, in the order handed in
HandedTimes == [k \in 1..Len(saResults) |-> saResults[k].CreatedTime]

\* C18: in the oldest-accounts view of every location the accounts are in
\* ascending creation time, no account without a timestamp precedes one
\* with a timestamp, the accounts listed are the first 5 of that order (all
\* of them when there are fewer), each account is listed once; and for the
\* timestamps [T3, nil, T1, T2] in one location the first two listed are T1
\* then T2.
C18_OldestAccountsView ==
    saPc = "returned" =>
        /\ \A l \in DOMAIN saOldest :
              LET view == saOldest[l]
                  listed == {view[i].Name : i \in 1..Len(view)}
                  unlisted == {k \in ViewCandidates(l) : saResults[k].Name \notin listed}
              IN /\ Len(view) <= 5
                 /\ Len(view) = IF Cardinality(ViewCandidates(l)) < 5
                                THEN Cardinality(ViewCandidates(l)) ELSE 5
                 /\ Cardinality(listed) = Len(view)
                 /\ \A i \in 1..Len(view) :
                       \E k \in ViewCandidates(l) :
                          /\ saResults[k].Name = view[i].Name
                          /\ saResults[k].CreatedTime = view[i].Time
                 /\ \A i, j \in 1..Len(view) :
                       i < j =>
                          /\ ~(view[i].Time = NoTime /\ view[j].Time # NoTime)
                          /\ (view[i].Time # NoTime /\ view[j].Time # NoTime)
                                => view[i].Time <= view[j].Time
                 /\ \A k \in unlisted : \A i \in 1..Len(view) :
                       /\ saResults[k].CreatedTime # NoTime => view[i].Time # NoTime
                       /\ (saResults[k].CreatedTime # NoTime /\ view[i].Time # NoTime)
                             => view[i].Time <= saResults[k].CreatedTime
        /\ \A l \in {saResults[k].Location : k \in 1..Len(saResults)} :
              ViewCandidates(l) # {} => l \in DOMAIN saOldest
        /\ (HandedTimes = <<3, NoTime, 1, 2>> /\ Cardinality(ViewCandidates("eastus")) = 4) =>
              /\ saOldest["eastus"][1].Time = 1
              /\ saOldest["eastus"][2].Time = 2

\* Six accounts of one location created at T3, never, T1, T2, never, T3:
\* five are listed, T1 T2 T3 T3 and one without a timestamp.
C18_Witness ==
    /\ saPc = "returned"
    /\ HandedTimes = <<3, NoTime, 1, 2, NoTime, 3>>
    /\ Cardinality(ViewCandidates("eastus")) = 6
    /\ Len(saOldest["eastus"]) = 5
    /\ saOldest["eastus"][1].Created = "2023-01-01"
    /\ saOldest["eastus"][2].Time = 2
    /\ saOldest["eastus"][4].Time = 3
    /\ saOldest["eastus"][5].Created = "Not available"

\* The listing call was answered 200 with a body that parsed.
ListingSucceeded ==
    /\ fPc \in {"processing", "returned"}
    /\ ~fAnswer.err
    /\ fAnswer.status = StatusOK
    /\ fAnswer.body = "json"

\* The listing call ended with a transport error, with a status other than
\* 200, or with a body that does not parse.
ListingFailed ==
    /\ fPc \in {"processing", "returned"}
    /\ (fAnswer.err \/ fAnswer.status # StatusOK \/ fAnswer.body # "json")

\* C13: when FetchResourceGroups has returned after a successful listing,
\* whatever fetches of groups failed, every group has been printed, in
\* order, the CSV variants have a row for every group, and the value
\* returned is nil, or the error of writing the CSV file, the one error
\* that can follow a successful listing and that no group's failure causes.
C13_EntityFailuresNotFatal ==
    (fPc = "returned" /\ ListingSucceeded) =>
        /\ fErr # NoError => (outputCSV /\ fErr = CSVWriteError)
        /\ Len(printed) = Len(resourceGroups)
        /\ \A k \in 1..Len(printed) : printed[k].Name = resourceGroups[k].Name
        /\ outputCSV =>
              /\ Len(csvData) = Len(resourceGroups)
              /\ \A k \in 1..Len(csvData) :
                    csvData[k].ResourceGroupName = resourceGroups[k].Name
        /\ ~outputCSV => csvData = <<>>

\* The fetches of both groups failed, both groups were printed and nil was
\* returned.
C13_Witness ==
    /\ fPc = "returned"
    /\ ListingSucceeded
    /\ ~listResources
    /\ Len(resourceGroups) = 2
    /\ fetchFailed = {1, 2}
    /\ results[1].Error # NoError
    /\ results[2].Error # NoError
    /\ Len(printed) = 2
    /\ fErr = NoError

\* C14: when the listing call has failed or its body does not parse,
\* FetchResourceGroups has returned an error, no processing function was
\* entered, no worker and no spinner started, no request for a group made,
\* and nothing printed or converted for a group.
C14_ListingFailureIsFatal ==
    ListingFailed =>
        /\ fPc = "returned"
        /\ fErr # NoError
        /\ mainPc = "idle"
        /\ resourceGroups = <<>>
        /\ results = <<>>
        /\ DOMAIN wpc = {}
        /\ DOMAIN fetchCalls = {}
        /\ wg = 0
        /\ semaphore = 0
        /\ otherCalls = 0
        /\ ~saw429
        /\ spinnerGo = "none"
        /\ printed = <<>>
        /\ csvData = <<>>

\* The listing was answered 200 with a body that does not parse.
C14_Witness ==
    /\ fPc = "returned"
    /\ ~fAnswer.err
    /\ fAnswer.status = StatusOK
    /\ fAnswer.body = "malformed"
    /\ fErr = "failed to parse response: invalid character"
    /\ mainPc = "idle"

\* Workers in an HTTP call or sleeping between two attempts, and those
\* sleeping.
Fetching == {w \in Workers : wpc[w] \in {"call", "sleep"}}
BackingOff == {w \in Workers : wpc[w] = "sleep"}

\* C26: a worker that sleeps in backoff still holds its unit: the workers
\* in an HTTP call or in a backoff sleep are never more than the budget
\* C = validateConcurrency(MaxConcurrency), each of them is counted in the
\* semaphore, and while C workers are backing off no waiting worker can
\* acquire.
C26_UnitHeldThroughBackoff ==
    /\ Cardinality(Fetching) <= validateConcurrency(cfgMaxConcurrency)
    /\ Cardinality(Fetching) <= semaphore
    /\ Cardinality(BackingOff) = validateConcurrency(cfgMaxConcurrency)
          => \A w \in Workers : ~ENABLED Acquire(w)

\* C workers are all sleeping in backoff while another worker waits to
\* acquire.
C26_Witness ==
    /\ mainPc # "entry"
    /\ Cardinality(BackingOff) = semCap
    /\ \E w \in Workers : wpc[w] = "acquire"

\* C27: the units held are exactly the workers between their acquire and
\* their release, so a worker that has released or ended holds none and
\* none is released twice, whether its fetch failed or not; no unit is
\* held when the pool has returned.
C27_UnitReleasedOnce ==
    /\ semaphore = Cardinality(InFlight)
    /\ \A w \in Workers :
          wpc[w] \in {"wgdone", "done"} => writes[wi[w]] = 1
    /\ mainPc = "returned" => semaphore = 0

\* The pool has returned after one fetch failed and another succeeded.
C27_Witness ==
    /\ mainPc = "returned"
    /\ N >= 2
    /\ fetchFailed # {}
    /\ \E i \in 1..N : i \notin fetchFailed
    /\ semaphore = 0

\* C29: while any worker has not ended, the calling goroutine is not in
\* its loop over results and nothing has been printed or converted to a
\* CSV row; rendering is a step of the calling goroutine after wg.Wait().
C29_RenderingAfterJoin ==
    (mainPc \in {"render", "returned"} \/ printed # <<>> \/ csvData # <<>>)
        => /\ Joined
           /\ wg = 0
           /\ \A w \in Workers : wpc[w] = "done"

\* The first of two or more results has been rendered.
C29_Witness ==
    /\ mainPc = "render"
    /\ N >= 2
    /\ Len(printed) = 1
    /\ outputCSV => Len(csvData) = 1

\* C30 as stated: every stored result has exactly one of CreatedTime and
\* Error.
C30_ExactlyOnePopulated ==
    \A i \in 1..Len(results) :
        results[i].filled =>
            ((results[i].CreatedTime # NoTime) # (results[i].Error # NoError))

\* C30: no stored result has both a CreatedTime and an Error; a result has
\* neither exactly when the fetch of its group succeeded and no resource of
\* the group carries a createdTime (the group has no resources, or none
\* with a timestamp).
C30_NeverBothPopulated ==
    \A i \in 1..Len(results) :
        results[i].filled =>
            /\ ~(results[i].CreatedTime # NoTime /\ results[i].Error # NoError)
            /\ (results[i].CreatedTime = NoTime /\ results[i].Error = NoError)
                  <=> /\ i \notin fetchFailed
                      /\ Earliest(ServerCreatedTimes(resourceGroups[i].Name)) = NoTime

\* The pool has stored a result with a CreatedTime, a result with an Error
\* or a result with neither: here the second group, which has no
\* resources, was fetched without error.
C30_Witness ==
    /\ Len(results) >= 2
    /\ results[2].filled
    /\ results[2].CreatedTime = NoTime
    /\ results[2].Error = NoError
    /\ results[1].filled
    /\ results[1].CreatedTime # NoTime

\* Every group but the hung one has its result stored.
OthersFetched ==
    /\ Len(results) = N
    /\ \A i \in 1..N : i # hung => results[i].filled /\ fetchCalls[i] = 1

\* C28 as stated: for every budget of 1 or more, when the fetch of one
\* group never returns, every other group is eventually fetched and its
\* slot filled.
C28_OthersFetchedEveryBudget ==
    (hung # 0 /\ cfgMaxConcurrency >= 1) => <>OthersFetched

\* C28: for every budget of 2 or more, when the fetch of one group never
\* returns, every other group is eventually fetched and its slot filled;
\* with a budget of 1 the hung fetch holds the only unit, and a group that
\* has not acquired before it stays unfetched for ever.
C28_OthersFetchedBudgetTwo ==
    /\ (hung # 0 /\ cfgMaxConcurrency >= 2) => <>OthersFetched
    /\ [](hung # 0 /\ semCap = 1 /\ wpc[hung] = "call"
            => \A w \in Workers : ~ENABLED Acquire(w))

\* With a budget of 2 or more, the request for one of two or more groups is
\* never answered, and every other group has been fetched while it hangs.
C28_Witness ==
    /\ hung # 0
    /\ cfgMaxConcurrency >= 2
    /\ N >= 2
    /\ wpc[hung] = "call"
    /\ OthersFetched

\* initConfig has run to its end and the program goes on.
Configured == fPc \notin {"idle", "initConfig", "fatal"}

\* C25 as stated: initConfig turns every configured value below 1, zero and
\* negatives alike, into a MaxConcurrency of exactly 1 and leaves every
\* value of 1 or more unchanged.
C25_BelowOneBecomesOne ==
    Configured =>
        cfgMaxConcurrency = IF viperMaxConcurrency < 1 THEN 1 ELSE viperMaxConcurrency

\* C25: initConfig turns every negative configured value into a
\* MaxConcurrency of exactly 1, leaves every value of 1 or more unchanged,
\* and turns a configured 0 into the default of 10; the effective value is
\* never below 1, and it is the capacity of the semaphore of the pool.
C25_InitConfigMaxConcurrency ==
    Configured =>
        /\ viperMaxConcurrency < 0 => cfgMaxConcurrency = 1
        /\ viperMaxConcurrency = 0 => cfgMaxConcurrency = DefaultMaxConcurrency
        /\ viperMaxConcurrency >= 1 => cfgMaxConcurrency = viperMaxConcurrency
        /\ cfgMaxConcurrency >= 1
        /\ mainPc \in {"spawn", "wait"} => semCap = cfgMaxConcurrency

\* initConfig has run with a configured value of 0, and the pool has made
\* its semaphore with the capacity of the default.
C25_Witness ==
    /\ Configured
    /\ viperMaxConcurrency = 0
    /\ cfgMaxConcurrency = DefaultMaxConcurrency
    /\ mainPc = "wait"
    /\ semCap = DefaultMaxConcurrency

\* A DefaultResourceGroupInfo is either a default with an owner and a
\* description, or the unclassified value with neither.
WellFormedInfo(info) ==
    \/ info.IsDefault /\ info.CreatedBy # "" /\ info.Description # ""
    \/ ~info.IsDefault /\ info.CreatedBy = "" /\ info.Description = ""

\* C21: for every name, as written, lower-cased and upper-cased,
\* checkIfDefaultResourceGroup returns IsDefault = true with a non-empty
\* CreatedBy and Description, or IsDefault = false with both empty.
C21_InfoWellFormed ==
    cPc \in {"classified", "rendered"} =>
        /\ WellFormedInfo(cInfo.name)
        /\ WellFormedInfo(cInfo.lower)
        /\ WellFormedInfo(cInfo.upper)

\* A name that matches no pattern while its upper-cased form matches one:
\* both kinds of value have been returned.
C21_Witness ==
    /\ cPc = "classified"
    /\ ~cInfo.name.IsDefault
    /\ cInfo.name.CreatedBy = ""
    /\ cInfo.upper.IsDefault
    /\ cInfo.upper.CreatedBy = "Microsoft Networking Services"

\* C22: every call of checkIfDefaultResourceGroup, the one with the empty
\* string included, can take its next step until it has returned; the
\* value it returns is the one its own argument determines, whatever the
\* other calls do meanwhile, so two calls with the same argument return
\* equal values.
C22_TotalAndDeterministic ==
    /\ \A c \in DOMAIN calls :
          /\ calls[c].pc # "returned" => ENABLED (CallToLower(c) \/ CallReturn(c))
          /\ calls[c].pc = "returned" =>
                calls[c].info = checkIfDefaultResourceGroup(calls[c].name)
    /\ \A c, d \in DOMAIN calls :
          (calls[c].pc = "returned" /\ calls[d].pc = "returned"
              /\ calls[c].name = calls[d].name) => calls[c].info = calls[d].info

\* Concurrent calls with the empty string have all gone through both
\* steps and returned the unclassified value.
C22_Witness ==
    /\ DOMAIN calls # {}
    /\ \A c \in DOMAIN calls :
          /\ calls[c].name = ""
          /\ calls[c].pc = "returned"
          /\ calls[c].info = NotDefault
\* the caller of Stop has returned from it
Stopped == mainPc = "spinnerStopped"

\* C23: Stop returns when Start was never called: a caller that entered Stop
\* on a spinner without an animation goroutine eventually leaves it.
C23_StopWithoutStartReturns ==
    [](mainPc = "spinnerStopping" /\ spinnerGo = "none" => <>Stopped)

\* C24: a spinner is inactive after NewSpinner and active after Start; Stop
\* on a started spinner eventually returns, and from then on the spinner is
\* inactive, its done channel is closed and the animation goroutine has left
\* its loop.
C24_SpinnerLifecycle ==
    /\ [](mainPc = "spinnerNew" => ~spinnerActive)
    /\ [](mainPc = "spinnerStarted" => spinnerActive)
    /\ [](mainPc = "spinnerStopping" /\ spinnerGo # "none" => <>Stopped)
    /\ [](Stopped => /\ ~spinnerActive
                     /\ spinnerDone = "closed"
                     /\ spinnerGo = "exited")

\* Stop has returned on a spinner that had printed all four frames and
\* started over
C24_Witness ==
    /\ Stopped
    /\ Len(spinnerOut) = MaxFrames + 1
    /\ spinnerOut[MaxFrames] = SpinnerFrame((MaxFrames - 1) % Len(frames), spinnerMessage)
    /\ spinnerOut[MaxFrames + 1] = ClearLine
    /\ spinnerGo = "exited"

\* a WithResources processing function has returned
WithResourcesReturned ==
    /\ listResources
    /\ fPc \in {"processing", "returned"}
    /\ mainPc = "returned"

\* C31: with list-resources, when the processing function has returned,
\* fetchResourcesInGroup or listResourcesInGroup was called exactly once for
\* every group, whether the output is human-readable, porcelain or CSV.
C31_DetailFetchedOnceEveryVariant ==
    WithResourcesReturned => \A i \in 1..N : fetchCalls[i] = 1

\* The result of the group at index i when every request for it is given
\* the answer scripted[i]: a 429 is retried to the last attempt.
ScriptedResult(i) ==
    LET answer == scripted[i]
    IN ResourceGroupResult(resourceGroups[i],
           FetchReturn(resourceGroups[i].Name, RetryOutcome(answer, maxRetries), answer))

\* C32: with the same list and the same answer for every group, the function
\* that returns CSV rows and the one that does not end with the same results
\* in the same order, whatever the budget, and the rows returned are
\* convertToCSVRow of the results, one for one and in order.
C32_CSVVariantSameResults ==
    mainPc = "returned" =>
        /\ results = [i \in 1..N |-> ScriptedResult(i)]
        /\ outputCSV =>
              csvData = [k \in 1..N |-> convertToCSVRow(results[k], FALSE, <<>>)]
        /\ ~outputCSV => csvData = <<>>

\* The CSV variant has returned two rows, the first for a group whose fetch
\* succeeded and the second for a group whose fetch failed.
C32_Witness ==
    /\ mainPc = "returned"
    /\ outputCSV
    /\ N = 2
    /\ scripted[1].status = StatusOK
    /\ scripted[2].status = StatusInternalServerError
    /\ Len(csvData) = 2
    /\ results[1].Error = NoError
    /\ results[2].Error # NoError

\* the patterns that match the lower-cased runes
MatchingPatterns(lowered) ==
    {k \in DOMAIN PatternPrefixes : PatternMatch(lowered)[k]}

\* the result for the classified name is the one of its first matching
\* pattern, and not a default when no pattern matches
FirstMatchWins ==
    LET m == MatchingPatterns(ToLowerRunes(RunesOf[cName]))
    IN /\ cInfo.name.IsDefault <=> m # {}
       /\ m # {} =>
             cInfo.name.CreatedBy =
                PatternCreatedBy[CHOOSE k \in m : \A j \in m : k <= j]

\* some name of the model is matched by more than one pattern
SomeNameMatchesTwo ==
    \E r \in NameRunes : Cardinality(MatchingPatterns(ToLowerRunes(r))) >= 2

\* the text a pattern requires at the start of the name is not the start of
\* the text another pattern requires
PrefixesDisjoint ==
    \A j, k \in DOMAIN PatternPrefixes :
        j # k => ~HasPrefix(PatternPrefixes[j], PatternPrefixes[k])

\* every name of the model that a pattern matches starts with the text of
\* that pattern
MatchNeedsPrefix ==
    \A r \in NameRunes : \A k \in DOMAIN PatternPrefixes :
        PatternMatch(ToLowerRunes(r))[k] =>
            HasPrefix(ToLowerRunes(r), PatternPrefixes[k])

\* C33 as stated: the first matching pattern wins, and some name is matched
\* by more than one pattern, so that the order of the patterns decides its
\* result.
C33_OrderMatters ==
    cPc # "call" =>
        /\ FirstMatchWins
        /\ SomeNameMatchesTwo

\* C33 amended: the first matching pattern wins, but no name is matched by
\* more than one pattern, so every order of the patterns gives the same
\* result: the text each pattern requires at the start of the name is not
\* the start of the text another pattern requires, every name a pattern
\* matches starts with the text of that pattern, and the result for the
\* classified name is the one of every pattern that matches it.
C33_PatternsDisjoint ==
    /\ PrefixesDisjoint
    /\ MatchNeedsPrefix
    /\ cPc # "call" =>
          LET m == MatchingPatterns(ToLowerRunes(RunesOf[cName]))
          IN /\ FirstMatchWins
             /\ Cardinality(m) <= 1
             /\ \A k \in m : cInfo.name.CreatedBy = PatternCreatedBy[k]

\* Default-Storage-EastUS was classified: it starts with "default", as the
\* first pattern requires too, and only the second pattern matches it.
C33_Witness ==
    /\ cPc = "classified"
    /\ cName = "Default-Storage-EastUS"
    /\ MatchingPatterns(ToLowerRunes(RunesOf[cName])) = {2}
    /\ cInfo.name.CreatedBy = "Azure Services"

\* the results without an error, and those of them in a location
ErrorFree == {k \in 1..Len(saResults) : saResults[k].Error = NoError}

ErrorFreeIn(location) == {k \in ErrorFree : saResults[k].Location = location}

RECURSIVE SumOfTotals(_)
SumOfTotals(totals) ==
    IF DOMAIN totals = {} THEN 0
    ELSE LET l == CHOOSE x \in DOMAIN totals : TRUE
         IN totals[l] + SumOfTotals([x \in DOMAIN totals \ {l} |-> totals[x]])

\* C34: printStorageAccountResults returns whatever results carry an error
\* and leaves them out of the tallies: the total printed for a location is
\* the number of error-free results of that location, every location with
\* an error-free result has a total, and the totals of all locations add up
\* to the number of error-free results.
C34_ErrorsSkippedInTallies ==
    saPc = "returned" =>
        /\ DOMAIN saTotals = {saResults[k].Location : k \in ErrorFree}
        /\ \A l \in DOMAIN saTotals : saTotals[l] = Cardinality(ErrorFreeIn(l))
        /\ SumOfTotals(saTotals) = Cardinality(ErrorFree)

\* Six results in two locations, two of them with an error, one in each
\* location: the totals are 2 and 2.
C34_Witness ==
    /\ saPc = "returned"
    /\ Len(saResults) = 6
    /\ saResults[2].Error # NoError /\ saResults[2].Location = "westus"
    /\ saResults[5].Error # NoError /\ saResults[5].Location = "eastus"
    /\ saResults[1].AccountType = ""
    /\ DOMAIN saTotals = {"eastus", "westus"}
    /\ saTotals["eastus"] = 2
    /\ saTotals["westus"] = 2
\* C35: a pool run leaves the list of groups it received as it is, and the
\* group stored in result i is the group at index i of that list: no step
\* changes resourceGroups, and after every step each stored result holds
\* the group that stood at its index before the step.
C35_InputListUntouched ==
    [][/\ resourceGroups' = resourceGroups
       /\ Len(results') = Len(resourceGroups) \/ mainPc = "entry"
       /\ \A i \in 1..Len(results') :
             results'[i].filled => /\ i <= Len(resourceGroups)
                                   /\ results'[i].ResourceGroup = resourceGroups[i]]_vars

\* The run over two groups has returned: both results are stored and hold
\* the first and the second group of the list, which still is the listing
\* handed in.
C35_Witness ==
    /\ mainPc = "returned"
    /\ resourceGroups = Listing(2)
    /\ Len(results) = 2
    /\ results[1].filled /\ results[1].ResourceGroup = ResourceGroup(1)
    /\ results[2].filled /\ results[2].ResourceGroup = ResourceGroup(2)
    /\ results[1].ResourceGroup # results[2].ResourceGroup
\* C36: once Stop has returned on a started spinner the animation goroutine
\* prints no further frame, whatever the interleaving: the goroutine has
\* returned, neither its print nor its wake-up can happen, and the output
\* ends with the line Stop cleared, every frame before it.  While Stop
\* waits at its send for a goroutine that sleeps, the send has not completed.
C36_NoFrameAfterStop ==
    /\ Stopped =>
          /\ spinnerGo = "exited"
          /\ ~ENABLED StartDefault
          /\ ~ENABLED StartWake
          /\ spinnerOut # <<>>
          /\ spinnerOut[Len(spinnerOut)] = ClearLine
          /\ \A k \in 1..(Len(spinnerOut) - 1) : spinnerOut[k] # ClearLine
    /\ (mainPc = "spinnerStopping" /\ spinnerGo = "sleep") =>
          /\ spinnerDone = "open"
          /\ ~ENABLED StopSend

\* Stop has returned after the goroutine had printed two frames, the second
\* one possibly while Stop was at its send; the cleared line is the last
\* output.
C36_Witness ==
    /\ Stopped
    /\ Len(spinnerOut) = 3
    /\ spinnerOut[1] = SpinnerFrame(0, spinnerMessage)
    /\ spinnerOut[2] = SpinnerFrame(1, spinnerMessage)
    /\ spinnerOut[3] = ClearLine
    /\ ~ENABLED SpinnerNext
\* the lines a Stop has cleared
ClearedLines == {k \in 1..Len(spinnerOut) : spinnerOut[k] = ClearLine}

\* a processing function has returned
ProcessingReturned == mainPc = "returned" \/ saPc = "returned"

\* C37: every processing function stops the spinner it started exactly once
\* before it returns: Stop never completes twice and never on a spinner
\* that was not started, and a function that has returned outside
\* porcelain mode has a spinner started, stopped once and closed.  In
\* porcelain mode no spinner is ever created or started.
C37_SpinnerStoppedOnce ==
    /\ porcelain => /\ spinnerGo = "none"
                    /\ spinnerDone = "nil"
                    /\ ~spinnerActive
                    /\ spinnerOut = <<>>
                    /\ mainPc \notin {"stopSend", "seqStopSend"}
                    /\ saPc # "stopSend"
    /\ Cardinality(ClearedLines) <= 1
    /\ ClearedLines # {} => spinnerGo = "exited" /\ spinnerDone = "closed"
    /\ (mainPc \in {"stopSend", "seqStopSend"} \/ saPc = "stopSend") =>
          spinnerGo = "loop" /\ spinnerDone = "open" /\ ClearedLines = {}
    /\ (ProcessingReturned /\ ~porcelain) =>
          /\ spinnerGo = "exited"
          /\ spinnerDone = "closed"
          /\ ~spinnerActive
          /\ Cardinality(ClearedLines) = 1

\* The function for storage accounts has returned after it stopped the
\* spinner it had started for three accounts.
C37_Witness ==
    /\ saPc = "returned"
    /\ ~porcelain
    /\ Len(saResults) = 3
    /\ spinnerMessage = "Processing storage accounts..."
    /\ spinnerGo = "exited"
    /\ spinnerOut = <<ClearLine>>
\* C38: in every processing path the spinner is stopped before the first
\* result is printed: whenever a result line has been written, no spinner is
\* active and no animation goroutine is running.
C38_NoResultWhileSpinning ==
    printed # <<>> => /\ ~spinnerActive
                      /\ spinnerGo \in {"none", "exited"}
\* the transport calls that brought a response, hence a body
Bodies == {c \in 1..Len(rAnswers) : ~rAnswers[c].err}

\* C39: every response body obtained by makeAzureRequest is closed exactly
\* once.  No body is ever closed twice and a call without response closes
\* nothing; the body of a 429 is closed before the next attempt; when the
\* call returns an error every body is closed; when it returns a response,
\* that one body, of a 200, is still open and all others are closed; when
\* the caller has returned, every body is closed once.
C39_BodyClosedOnce ==
    /\ Len(rClosed) = Len(rAnswers)
    /\ \A c \in 1..Len(rClosed) :
          /\ rClosed[c] <= 1
          /\ rAnswers[c].err => rClosed[c] = 0
    /\ rPc \in {"sleep", "call"} => \A c \in Bodies : rClosed[c] = 1
    /\ (rPc = "returned" /\ rReturn.err # NoError) =>
          /\ rReturn.resp = 0
          /\ \A c \in Bodies : rClosed[c] = 1
    /\ (rPc = "returned" /\ rReturn.err = NoError) =>
          /\ rReturn.resp = Len(rAnswers)
          /\ rAnswers[rReturn.resp].status = StatusOK
          /\ rClosed[rReturn.resp] = 0
          /\ \A c \in Bodies \ {rReturn.resp} : rClosed[c] = 1
    /\ rPc = "callerReturned" => \A c \in Bodies : rClosed[c] = 1

\* Two 429 answers and then a 200: the caller has returned and each of the
\* three bodies was closed once.
C39_Witness ==
    /\ rPc = "callerReturned"
    /\ rReturn.err = NoError
    /\ rReturn.resp = 3
    /\ Bodies = {1, 2, 3}
    /\ rClosed = <<1, 1, 1>>
\* the answers of status 429 received so far
Throttled == {c \in 1..Len(rAnswers) :
                 ~rAnswers[c].err /\ rAnswers[c].status = StatusTooManyRequests}

\* C40: the attempt counter starts at 0, grows by one with every 429 that
\* is retried and never exceeds 5; the transport has been called attempt+1
\* times once the current frame has made its call; and a transport that
\* answers 429 to every call has received exactly 6 calls, with exactly 5
\* sleeps between them, when the call returns.
C40_AttemptCounter ==
    /\ rAttempt \in 0..5
    /\ rCalls = 0 => rAttempt = 0
    /\ rCalls = Len(rAnswers)
    /\ rPc = "call" => /\ rCalls = rAttempt
                       /\ Len(rSlept) = rAttempt
                       /\ Cardinality(Throttled) = rAttempt
    /\ rPc = "sleep" => /\ rCalls = rAttempt + 1
                        /\ Len(rSlept) = rAttempt + 1
                        /\ rAttempt < 5
                        /\ Throttled = 1..rCalls
    /\ rPc = "returned" => /\ rCalls = rAttempt + 1
                           /\ Len(rSlept) = rAttempt
                           /\ Throttled \in {1..rAttempt, 1..rCalls}
    /\ (rPc = "returned" /\ Always429) => /\ rCalls = 6
                                          /\ Len(rSlept) = 5
                                          /\ rAttempt = 5
                                          /\ Throttled = 1..6
                                          /\ rReturn.resp = 0

\* Six calls, each answered 429, five sleeps between them, and the call
\* has returned with the counter at 5.
C40_Witness ==
    /\ rPc = "returned"
    /\ Always429
    /\ rAttempt = 5
    /\ Len(rAnswers) = 6
    /\ Throttled = 1..6
    /\ Len(rSlept) = 5
====
